---- MODULE Spec2Model ----
(***************************************************************************)
(* Date-indexed raster acquisition and alignment: the ERA5 retriever       *)
(* (era5_retriever.py), the GLDAS retriever (gldas21_retriever.py), the    *)
(* NDVI download loop (ndvi_retrieval.py), the grid aligner                *)
(* resample_to_match_reference, and the NDVI-to-LST date index             *)
(* (synchronize_ndvi_to_lst.py).                                           *)
(*                                                                         *)
(* Calendar dates are day numbers starting at 1 (0 stands for "no date"); *)
(* the difference of two datetimes is the difference of their day numbers. *)
(***************************************************************************)
EXTENDS Integers, Sequences, FiniteSets, TLC

(***************************************************************************)
(* Bounds of the model.                                                    *)
(***************************************************************************)
\* Longest directory listing handed to get_image_date_map.
MaxFiles == 3
\* Number of runs of a retriever (ERA5, GLDAS) over the same output folder.
MaxRuns == 2

\* Number of calls of resample_to_match_reference on one source path, and
\* of filter_image_by_range on one file.
MaxCalls == 2

(***************************************************************************)
(* State.  Each specification below moves one group of variables and       *)
(* leaves the others at their initial values.                              *)
(***************************************************************************)
\* synchronize_ndvi_to_lst.py: main
VARIABLES
    sync_pc,      \* "scan" | "mapped" | "found"
    listing,      \* the order in which glob.glob lists the NDVI folder
    date_map,     \* the dict built by get_image_date_map
    target,       \* the LST date looked up
    nearest       \* the result of find_nearest_image

sync_vars == <<sync_pc, listing, date_map, target, nearest>>

\* resample_to_match_reference on one source path
VARIABLES
    al_pc,       \* "idle" | "open" | "create" | "band" | "move" | "crashed"
    al_src,      \* the raster at source_path
    al_tmp,      \* the raster at source_path + ".resampled.tif"
    al_ref,      \* the raster at reference_path
    al_i,        \* the band being reprojected
    al_calls,    \* calls made so far
    al_result,   \* how the last call ended: "none" | "noop" | "resampled" |
                 \* "error" (printed by the handler) | "raised" (reached the caller)
    al_before,   \* the source raster when the current call began
    al_prev,     \* how the call before the current one ended
    al_wrote     \* whether the current call has opened the temporary file

al_vars == <<al_pc, al_src, al_tmp, al_ref, al_i, al_calls, al_result,
             al_before, al_prev, al_wrote>>

\* era5_retriever.py: main over one input folder and one output folder
VARIABLES
    e_pc,          \* where main is: "setup" | "date" | "export" | "download" |
                   \* "write_open" | "write" | "cleanup" | "sleep" | "final" |
                   \* "done" | "aborted" | "crashed"
    e_run,         \* the number of the current run
    lst_folder,    \* the input folder, in glob order
    e_ref,         \* the sample raster (reference grid)
    target_dates,  \* the sorted dates of the run
    e_idx,         \* position of the loop in target_dates
    out,           \* output folder: day -> raster at ERA5_data_<day>.tif
    tmpf,          \* output folder: day -> raster at ERA5_data_<day>.tif.resampled.tif
    temp_dl,       \* whether the scratch directory temp_dl exists
    band_arrays,   \* export_ee_image's band_arrays
    nq,            \* day -> Earth Engine calls made for it in this run
    nreq,          \* day -> package downloads requested for it in this run
    out_start,     \* the output folder when the run started
    aligned,       \* day -> how resample_to_match_reference ended in this run
    ended,         \* the days whose loop iteration has ended in this run
    abort_in,      \* where an exception left main: "none" | "date" | "final"
    e_res          \* day -> what the fetch of this run came to: "none" |
                   \* "empty" (empty query result) | "data" (a package with
                   \* .tif files was received) | "fault" (writing it failed)

era_vars == <<e_pc, e_run, lst_folder, e_ref, target_dates, e_idx, out, tmpf,
              temp_dl, band_arrays, nq, nreq, out_start, aligned, ended,
              abort_in, e_res>>

\* ndvi_retrieval.py: download_ndvi over one collection and one output folder
VARIABLES
    n_pc,              \* where download_ndvi is: "size" | "head" | "url" |
                       \* "mkdtemp" | "fetch" | "rmtree" | "backoff" | "done" |
                       \* "aborted"
    n_period,          \* start_date and end_date of main_ndvi, in days
    observations,      \* the days of the source images handed to
                       \* calculate_8day_composites
    composites,        \* the images of ndvi_composites, in list order
    n_i,               \* the loop index i, counted from 1
    n_files,           \* the days whose file exists in the output folder
    attempt,           \* the retry loop's attempt
    download_success,  \* the retry loop's flag
    n_temp,            \* the number of scratch directories that exist
    n_q,               \* index -> Earth Engine calls made for the image
    n_req,             \* index -> requests.get calls made for the image
    n_waits,           \* index -> the pauses between its attempts, in seconds
    n_ended,           \* the indices whose iteration has ended
    n_abort            \* where an exception left download_ndvi:
                       \* "none" | "setup" | "date"

ndvi_vars == <<n_pc, n_period, observations, composites, n_i, n_files, attempt, download_success,
               n_temp, n_q, n_req, n_waits, n_ended, n_abort>>

\* test.py: extract_date_from_filename called on one file name
VARIABLES
    x_pc,        \* "call" | "returned"
    filename,    \* the file name, as the sequence of its date-shaped tokens
    image_date   \* what extract_date_from_filename returned

date_vars == <<x_pc, filename, image_date>>

\* filter_lst_range.py: filter_image_by_range called on one file
VARIABLES
    f_pc,           \* "idle" | "band" | "close"
    f_file,         \* the raster at file_path: dtype, nodata, bands of pixels
    band_idx,       \* the band of the loop
    total_changed,  \* the function's counter of replaced pixels
    f_calls,        \* calls made so far
    f_before,       \* the raster when the current call began
    f_wrote,        \* what the current call has written: band numbers, 0 for
                    \* the no-data value
    f_result,       \* how the last call ended: "none" | "filtered" |
                    \* "skipped" | "error" (an exception was caught and printed)
    f_prev          \* how the call before the current one ended

filter_vars == <<f_pc, f_file, band_idx, total_changed, f_calls, f_before, f_wrote, f_result, f_prev>>

\* era5_retriever.py: the image query of get_era5_for_date for one date
VARIABLES
    q_pc,             \* "query" | "selected"
    daily_aggr,       \* the days for which ECMWF/ERA5_LAND/DAILY_AGGR holds an image
    q_date,           \* the date get_era5_for_date is called for
    best_img          \* the day of the image selected, 0 if none

query_vars == <<q_pc, daily_aggr, q_date, best_img>>

\* ls2_prd_retrieval.py: download_images
VARIABLES
    l_pc,             \* "size" | "head" | "mkdtemp" | "request" | "save" |
                      \* "unpack" | "done" | "aborted"
    l_collection,     \* the images of image_collection, in list order
    l_i,              \* position of the for loop (line 85)
    l_files,          \* the image ids with a file in out_folder
    l_temp,           \* how many folders made by tempfile.mkdtemp exist
    l_abort           \* where an exception left download_images, or "none"

ls_vars == <<l_pc, l_collection, l_i, l_files, l_temp, l_abort>>

\* export_ee_image / download_ndvi: two fetches into one output folder
VARIABLES
    retriever,        \* "era5" | "gldas" | "ndvi": whose fetch the tasks run
    s_pc,             \* per task: "start" | "save" | "unzip" | "read" |
                      \* "cleanup" | "done"
    scratch,          \* per directory name: whether it exists, whose package
                      \* its ZIP file holds (0: no ZIP), whose .tif files it holds
    s_pkg,            \* per task: whose package it listed in the ZIP (0: none)
    s_got             \* per task: whose pixels it read (0: none)

sc_vars == <<retriever, s_pc, scratch, s_pkg, s_got>>

\* run_tay_nguyen_pipeline.py: main
VARIABLES
    p_pc,             \* "start" | "mode1" | "mode2" | "filter" | "csv" |
                      \* "summary" | "crawl" | "complete" | "exited"
    csv_file,         \* whether tay_nguyen_filtered_grids.csv exists
    csv_checked,      \* what check_file_exists said: "none" | "found" | "missing"
    p_steps,          \* the commands run so far, with their return codes
    p_printed,        \* what main has printed about the modes and the CSV
    p_log,            \* the entries of the log file
    p_exit            \* the exit status of the process, -1 while it runs

pl_vars == <<p_pc, csv_file, csv_checked, p_steps, p_printed, p_log, p_exit>>

vars == <<sync_vars, al_vars, era_vars, ndvi_vars, date_vars, filter_vars, query_vars, ls_vars, sc_vars, pl_vars>>

\* What the actions of one group leave unchanged.
not_sync == <<al_vars, era_vars, ndvi_vars, date_vars, filter_vars, query_vars, ls_vars, sc_vars, pl_vars>>
not_al == <<sync_vars, era_vars, ndvi_vars, date_vars, filter_vars, query_vars, ls_vars, sc_vars, pl_vars>>
not_era == <<sync_vars, al_vars, ndvi_vars, date_vars, filter_vars, query_vars, ls_vars, sc_vars, pl_vars>>
not_ndvi == <<sync_vars, al_vars, era_vars, date_vars, filter_vars, query_vars, ls_vars, sc_vars, pl_vars>>
not_date == <<sync_vars, al_vars, era_vars, ndvi_vars, filter_vars, query_vars, ls_vars, sc_vars, pl_vars>>
not_filter == <<sync_vars, al_vars, era_vars, ndvi_vars, date_vars, query_vars, ls_vars, sc_vars, pl_vars>>
not_query == <<sync_vars, al_vars, era_vars, ndvi_vars, date_vars, filter_vars, ls_vars, sc_vars, pl_vars>>
not_ls == <<sync_vars, al_vars, era_vars, ndvi_vars, date_vars, filter_vars, query_vars, sc_vars, pl_vars>>
not_sc == <<sync_vars, al_vars, era_vars, ndvi_vars, date_vars, filter_vars, query_vars, ls_vars, pl_vars>>
not_pl == <<sync_vars, al_vars, era_vars, ndvi_vars, date_vars, filter_vars, query_vars, ls_vars, sc_vars>>

\* download_ndvi is not running.
NdviIdle ==
    /\ n_pc = "off"
    /\ n_period = [start_date |-> 0, end_date |-> 0]
    /\ observations = {}
    /\ composites = <<>>
    /\ n_i = 0
    /\ n_files = {}
    /\ attempt = 0
    /\ download_success = FALSE
    /\ n_temp = 0
    /\ n_q = <<>>
    /\ n_req = <<>>
    /\ n_waits = <<>>
    /\ n_ended = {}
    /\ n_abort = "none"

\* extract_date_from_filename is not called.
DateIdle ==
    /\ x_pc = "off"
    /\ filename = <<>>
    /\ image_date = 0

\* filter_image_by_range is not called.
FilterIdle ==
    /\ f_pc = "off"
    /\ f_file = <<>>
    /\ band_idx = 0
    /\ total_changed = 0
    /\ f_calls = 0
    /\ f_before = <<>>
    /\ f_wrote = {}
    /\ f_result = "none"
    /\ f_prev = "none"

\* get_era5_for_date is not called.
QueryIdle ==
    /\ q_pc = "off"
    /\ daily_aggr = {}
    /\ q_date = 0
    /\ best_img = 0

\* download_images is not called.
LandsatIdle ==
    /\ l_pc = "off"
    /\ l_collection = <<>>
    /\ l_i = 0
    /\ l_files = {}
    /\ l_temp = 0
    /\ l_abort = "none"

\* No fetch is running.
ScratchIdle ==
    /\ retriever = "none"
    /\ s_pc = <<>>
    /\ scratch = <<>>
    /\ s_pkg = <<>>
    /\ s_got = <<>>

\* The pipeline script is not run.
PipelineIdle ==
    /\ p_pc = "off"
    /\ csv_file = FALSE
    /\ csv_checked = "none"
    /\ p_steps = <<>>
    /\ p_printed = <<>>
    /\ p_log = <<>>
    /\ p_exit = -1

(***************************************************************************)
(* synchronize_ndvi_to_lst.py                                              *)
(***************************************************************************)
\* File names of an NDVI folder. token is what the pattern \d{4}-\d{2}-\d{2}
\* finds in the name: "date" when strptime accepts it (day is its day
\* number), "invalid" when the pattern matches but strptime raises ValueError
\* (2022-13-45), "none" when the pattern does not match.
SyncFiles ==
    { [stem |-> "a", token |-> "date", day |-> 1],
      [stem |-> "a", token |-> "date", day |-> 10],
      [stem |-> "b", token |-> "date", day |-> 10],
      [stem |-> "a", token |-> "date", day |-> 20],
      [stem |-> "a", token |-> "invalid", day |-> 0],
      [stem |-> "a", token |-> "none", day |-> 0] }

\* The value None where a path is expected.
NoPath == [stem |-> "", token |-> "none", day |-> 0]

\* Target dates (LST dates) looked up in the map.
SyncTargets == {10, 14, 15}

\* Sequences without repetition over S, of length at most n: the orders in
\* which glob.glob may list the files of a folder.
RECURSIVE Listings(_, _)
Listings(S, n) ==
    IF n = 0 THEN {<<>>}
    ELSE {<<>>} \cup { <<f>> \o l : f \in S, l \in Listings(S, n - 1) }

NoRepeat(l) == \A i, j \in 1..Len(l) : i # j => l[i] # l[j]

SeqRange(s) == { s[i] : i \in 1..Len(s) }

\* date_map[file_date] = file_path on an insertion-ordered dict: a key that
\* is already present keeps its position and takes the new value, a new key
\* is appended.
DictSet(m, k, v) ==
    IF \E i \in 1..Len(m) : m[i].key = k
    THEN [i \in 1..Len(m) |-> IF m[i].key = k THEN [key |-> k, val |-> v] ELSE m[i]]
    ELSE Append(m, [key |-> k, val |-> v])

\* One iteration of the loop of get_image_date_map (lines 23-31).
get_image_date_map_step(m, f) ==
    IF f.token = "none" THEN m
    ELSE IF f.token = "invalid" THEN m
    ELSE DictSet(m, f.day, f)

RECURSIVE get_image_date_map_from(_, _)
get_image_date_map_from(m, l) ==
    IF l = <<>> THEN m
    ELSE get_image_date_map_from(get_image_date_map_step(m, Head(l)), Tail(l))

\* get_image_date_map on a folder whose listing is l.
get_image_date_map(l) == get_image_date_map_from(<<>>, l)

Abs(x) == IF x < 0 THEN -x ELSE x

\* The mutant of the key below: the signed difference.
nearest_key_signed(date, target_date) == date - target_date

\* key=lambda date: abs(date - target_date)
nearest_key(date, target_date) == Abs(date - target_date)

\* Python's min(iterable, key=...): the first element, in iteration order,
\* whose key is minimal.
RECURSIVE MinByKey(_, _, _)
MinByKey(best, rest, target_date) ==
    IF rest = <<>> THEN best
    ELSE IF nearest_key(Head(rest).key, target_date) < nearest_key(best.key, target_date)
         THEN MinByKey(Head(rest), Tail(rest), target_date)
         ELSE MinByKey(best, Tail(rest), target_date)

\* find_nearest_image(target_date, source_map)
find_nearest_image(target_date, source_map) ==
    IF source_map = <<>> THEN NoPath
    ELSE MinByKey(Head(source_map), Tail(source_map), target_date).val

SyncInit ==
    /\ sync_pc = "scan"
    /\ listing \in { l \in Listings(SyncFiles, MaxFiles) : NoRepeat(l) }
    /\ date_map = <<>>
    /\ target = 0
    /\ nearest = NoPath

SyncIdle ==
    /\ sync_pc = "off"
    /\ listing = <<>>
    /\ date_map = <<>>
    /\ target = 0
    /\ nearest = <<>>

\* lines 68-69 of main: the map of the folder is built.
BuildMap ==
    /\ sync_pc = "scan"
    /\ date_map' = get_image_date_map(listing)
    /\ sync_pc' = "mapped"
    /\ UNCHANGED <<listing, target, nearest, not_sync>>

\* line 84 of main: the nearest image of one LST date is looked up.
FindNearest ==
    /\ sync_pc \in {"mapped", "found"}
    /\ \E t \in SyncTargets :
          /\ target' = t
          /\ nearest' = find_nearest_image(t, date_map)
    /\ sync_pc' = "found"
    /\ UNCHANGED <<listing, date_map, not_sync>>

SyncNext == BuildMap \/ FindNearest

(***************************************************************************)
(* Rasters.  A GeoTIFF on disk is a record: exists (the path is present),  *)
(* valid (rasterio.open succeeds on it), its grid (crs, transform, width,  *)
(* height), its profile (count, dtype, nodata) and the bands written to    *)
(* it.  A band is its pixel source (data) and the grids it was sampled on  *)
(* (path): resampling a band changes its pixels, so it extends path.       *)
(***************************************************************************)
RefGrid ==
    [crs |-> "EPSG:4326", transform |-> <<30, 0, 0>>, width |-> 100, height |-> 80]

CoarseGrid ==
    [crs |-> "EPSG:4326", transform |-> <<1000, 0, 0>>, width |-> 3, height |-> 2]

NoGrid == [crs |-> "none", transform |-> <<0, 0, 0>>, width |-> 0, height |-> 0]

\* A path that does not exist.
NoRaster ==
    [exists |-> FALSE, valid |-> FALSE, grid |-> NoGrid, count |-> 0,
     dtype |-> "", nodata |-> "", bands |-> <<>>]

\* A file that exists and that rasterio cannot open (truncated, not a TIFF).
CorruptRaster == [NoRaster EXCEPT !.exists = TRUE]

Band(name, g) == [data |-> name, path |-> <<g>>]

\* A complete raster of n bands on grid g.
Raster(g, n, dtype, nodata, name) ==
    [exists |-> TRUE, valid |-> TRUE, grid |-> g, count |-> n,
     dtype |-> dtype, nodata |-> nodata,
     bands |-> [i \in 1..n |-> Band(<<name, i>>, g)]]

\* A band of a file that was closed before the band was written.
Unwritten == [data |-> <<>>, path |-> <<>>]

\* The bands of the raster that hold pixels.
WrittenBands(r) == { i \in 1..Len(r.bands) : r.bands[i] # Unwritten }

\* The raster is readable and every band of it has been written.
Complete(r) ==
    r.exists /\ r.valid /\ Len(r.bands) = r.count /\ WrittenBands(r) = 1..r.count

(***************************************************************************)
(* era5_retriever.py: resample_to_match_reference                          *)
(***************************************************************************)
\* lines 154-156: "Check if resampling is actually needed".
already_aligned(src, ref) ==
    /\ src.grid.width = ref.grid.width
    /\ src.grid.height = ref.grid.height
    /\ src.grid.transform = ref.grid.transform

\* lines 150, 163-172: ref.meta.copy() with count, dtype and nodata taken
\* from the source; the temporary file is opened for writing with it.
resample_meta(src, ref) ==
    [exists |-> TRUE, valid |-> FALSE, grid |-> ref.grid, count |-> src.count,
     dtype |-> src.dtype, nodata |-> src.nodata, bands |-> <<>>]

\* rasterio.warp.reproject raises when a CRS is undefined.
reproject_raises(src, ref) == src.grid.crs = "none" \/ ref.grid.crs = "none"

\* lines 174-182: band i of the source resampled (bilinear) onto the
\* reference grid (a band without pixels stays without).
reproject_band(b, ref) ==
    IF b = Unwritten THEN b ELSE [data |-> b.data, path |-> Append(b.path, ref.grid)]

\* The temporary file with band i of src added.
write_band(t, src, ref, i) ==
    [t EXCEPT !.bands = Append(t.bands, reproject_band(src.bands[i], ref))]

\* A file opened for writing once the with-block has closed it: it is
\* readable, and a band the block did not reach holds no pixels.
close_raster(t) ==
    [t EXCEPT !.valid = TRUE,
              !.bands = [i \in 1..t.count |->
                            IF i <= Len(t.bands) THEN t.bands[i] ELSE Unwritten]]

\* The mutant of the replacement below: the resampled pixels are written
\* into the source path directly, band by band, and the source's profile is
\* left as it was.
move_keeps_source_profile(t, src) == [src EXCEPT !.bands = t.bands]

\* line 185: shutil.move(temp_output_path, source_path): a rename inside one
\* directory; the source path then holds what the temporary file held.
move_over_source(t, src) == t

AlignSources ==
    { Raster(RefGrid, 2, "float64", "nan", "x"),
      Raster(CoarseGrid, 2, "float64", "nan", "x"),
      Raster(CoarseGrid, 1, "float64", "none", "x"),
      Raster([RefGrid EXCEPT !.crs = "EPSG:3857"], 1, "float64", "nan", "x"),
      Raster([CoarseGrid EXCEPT !.crs = "none"], 2, "float64", "nan", "x"),
      CorruptRaster,
      NoRaster }

AlignReferences ==
    { Raster(RefGrid, 1, "float32", "0", "r"),
      Raster(CoarseGrid, 1, "float32", "0", "r"),
      CorruptRaster }

AlignInit ==
    /\ al_pc = "idle"
    /\ al_src \in AlignSources
    /\ al_ref \in AlignReferences
    /\ al_tmp = NoRaster
    /\ al_i = 0
    /\ al_calls = 0
    /\ al_result = "none"
    /\ al_before = NoRaster
    /\ al_prev = "none"
    /\ al_wrote = FALSE

AlignIdle ==
    /\ al_pc = "off"
    /\ al_src = <<>>
    /\ al_ref = <<>>
    /\ al_tmp = <<>>
    /\ al_i = 0
    /\ al_calls = 0
    /\ al_result = "none"
    /\ al_before = <<>>
    /\ al_prev = "none"
    /\ al_wrote = FALSE

\* The call returns to its caller.
AlReturn(result) ==
    /\ al_result' = result
    /\ al_pc' = "idle"

\* The exceptions the body can raise, all subclasses of Exception.
AlignExceptions == {"RasterioIOError", "CRSError", "OSError"}

\* The mutant of the handler below: except RasterioIOError.
resample_catches_io_only(exc) == exc = "RasterioIOError"

\* line 188: except Exception as e.
resample_catches(exc) == exc \in AlignExceptions

\* An exception raised in the try block (lines 148-189): caught, it is
\* printed and the call returns; otherwise it reaches the caller.
AlRaise(exc) ==
    IF resample_catches(exc) THEN AlReturn("error") ELSE AlReturn("raised")

\* A caller calls resample_to_match_reference(source_path, reference_path).
AlCall ==
    /\ al_pc \in {"idle", "crashed"}
    /\ al_calls < MaxCalls
    /\ al_calls' = al_calls + 1
    /\ al_pc' = "open"
    /\ al_before' = al_src
    /\ al_prev' = (IF al_pc = "crashed" THEN "crashed" ELSE al_result)
    /\ al_result' = "running"
    /\ al_wrote' = FALSE
    /\ UNCHANGED <<al_src, al_tmp, al_ref, al_i, not_al>>

\* lines 149-158: both rasters are opened and the grids compared.
AlOpen ==
    /\ al_pc = "open"
    /\ IF ~al_ref.valid \/ ~al_src.valid
       THEN AlRaise("RasterioIOError")
       ELSE IF already_aligned(al_src, al_ref)
            THEN AlReturn("noop")
            ELSE al_pc' = "create" /\ UNCHANGED al_result
    /\ UNCHANGED <<al_src, al_tmp, al_ref, al_i, al_calls, al_before, al_prev, al_wrote, not_al>>

\* line 172: the temporary file is opened for writing (ok = FALSE: the open
\* fails, e.g. the disk is full or the folder read-only).
AlCreate ==
    /\ al_pc = "create"
    /\ \E ok \in BOOLEAN :
          IF ok
          THEN /\ al_tmp' = resample_meta(al_src, al_ref)
               /\ al_i' = 1
               /\ al_wrote' = TRUE
               /\ al_pc' = "band"
               /\ UNCHANGED al_result
          ELSE /\ AlRaise("RasterioIOError")
               /\ UNCHANGED <<al_tmp, al_i, al_wrote>>
    /\ UNCHANGED <<al_src, al_ref, al_calls, al_before, al_prev, not_al>>

\* lines 173-182: one band is reprojected into the temporary file
\* (ok = FALSE: the write fails).
AlBand ==
    /\ al_pc = "band"
    /\ \E ok \in BOOLEAN :
          IF ok /\ ~reproject_raises(al_src, al_ref)
          THEN /\ al_tmp' = (IF al_i = al_src.count
                             THEN close_raster(write_band(al_tmp, al_src, al_ref, al_i))
                             ELSE write_band(al_tmp, al_src, al_ref, al_i))
               /\ al_i' = al_i + 1
               /\ al_pc' = (IF al_i = al_src.count THEN "move" ELSE "band")
               /\ UNCHANGED al_result
          ELSE /\ AlRaise(IF reproject_raises(al_src, al_ref) THEN "CRSError" ELSE "OSError")
               /\ al_tmp' = close_raster(al_tmp)
               /\ UNCHANGED al_i
    /\ UNCHANGED <<al_src, al_ref, al_calls, al_before, al_prev, al_wrote, not_al>>

\* line 185: the temporary file replaces the source (ok = FALSE: the rename
\* fails).
AlMove ==
    /\ al_pc = "move"
    /\ \E ok \in BOOLEAN :
          IF ok
          THEN /\ al_src' = move_over_source(al_tmp, al_src)
               /\ al_tmp' = NoRaster
               /\ AlReturn("resampled")
          ELSE /\ AlRaise("OSError")
               /\ UNCHANGED <<al_src, al_tmp>>
    /\ UNCHANGED <<al_ref, al_i, al_calls, al_before, al_prev, al_wrote, not_al>>

\* The process is killed inside the call.
AlCrash ==
    /\ al_pc \in {"open", "create", "band", "move"}
    /\ al_pc' = "crashed"
    /\ al_result' = "crashed"
    /\ UNCHANGED <<al_src, al_tmp, al_ref, al_i, al_calls, al_before, al_prev, al_wrote, not_al>>

AlignNext == AlCall \/ AlOpen \/ AlCreate \/ AlBand \/ AlMove \/ AlCrash

(***************************************************************************)
(* Properties of the grid aligner (SpecAlign)                              *)
(***************************************************************************)
AlSucceeded == al_pc = "idle" /\ al_result \in {"noop", "resampled"}

\* C5: whenever resample_to_match_reference returns without reporting an
\* error, the raster at the source path has the reference's CRS, transform,
\* width and height, and the band count, dtype and no-data value the source
\* had before the call.
C5_AlignedAfterSuccess ==
    AlSucceeded =>
        /\ al_src.grid = al_ref.grid
        /\ al_src.count = al_before.count
        /\ al_src.dtype = al_before.dtype
        /\ al_src.nodata = al_before.nodata

\* C6: after one successful call on (X, R), a second call with the same
\* arguments opens no temporary file, does not replace X, leaves X's grid
\* and content as the first call left them, and ends on the fast path.
C6_AlignIdempotent ==
    (al_calls >= 2 /\ al_prev \in {"noop", "resampled"}) =>
        /\ al_pc \in {"open", "idle", "crashed"}
        /\ ~al_wrote
        /\ al_src = al_before
        /\ al_pc = "idle" => al_result = "noop"

\* C6, its case: a first call resampled X, the second one returned on the
\* fast path.
C6_Witness ==
    /\ al_calls = 2 /\ al_prev = "resampled"
    /\ al_pc = "idle" /\ al_result = "noop"

\* C7: an unopenable source or reference, or a failing reprojection, is
\* reported by the call itself (no exception reaches the caller) and the
\* file at the source path keeps its content.
C7_ErrorKeepsSource ==
    /\ al_result # "raised"
    /\ (al_pc = "idle" /\ al_result = "error") => al_src = al_before

\* C7, its case: the reprojection of the second band failed with the first
\* band already in the temporary file, and the call returned.
C7_Witness ==
    /\ al_pc = "idle" /\ al_result = "error"
    /\ al_tmp.exists /\ WrittenBands(al_tmp) = {1}
    /\ Complete(al_src)

(***************************************************************************)
(* Properties of the date index (SpecSync)                                 *)
(***************************************************************************)
MapKeys == { date_map[i].key : i \in 1..Len(date_map) }

\* C8: find_nearest_image returns None exactly when the map is empty, and
\* otherwise the path stored under a date at minimal distance from the
\* target.
C8_NearestIsClosest ==
    sync_pc = "found" =>
        /\ (nearest = NoPath) <=> (date_map = <<>>)
        /\ date_map # <<>> =>
              \E i \in 1..Len(date_map) :
                  /\ nearest = date_map[i].val
                  /\ \A j \in 1..Len(date_map) :
                        Abs(date_map[i].key - target) <= Abs(date_map[j].key - target)

\* C8, its case: dates {1, 10, 20} and target 14 give the file of day 10.
C8_Witness ==
    /\ sync_pc = "found"
    /\ MapKeys = {1, 10, 20}
    /\ target = 14
    /\ nearest.day = 10

\* C9: of two dates equally distant from the target the earlier one's path
\* is returned, whatever the order of the directory listing.
C9_TieBreakEarliest ==
    (sync_pc = "found" /\ date_map # <<>>) =>
        \A i \in 1..Len(date_map) :
            (\A j \in 1..Len(date_map) :
                Abs(date_map[i].key - target) <= Abs(date_map[j].key - target))
            => nearest.day <= date_map[i].key

\* The dict as the set of its (date, path) pairs.
MapPairs(m) == { <<m[i].key, m[i].val>> : i \in 1..Len(m) }

\* C10: the map holds at most one path per date, and the path kept for a
\* date is the same for every order in which the folder can be listed.
C10_CollisionDeterministic ==
    sync_pc # "scan" =>
        /\ \A i, j \in 1..Len(date_map) :
              date_map[i].key = date_map[j].key => i = j
        /\ \A l \in Listings(SeqRange(listing), Len(listing)) :
              (NoRepeat(l) /\ Len(l) = Len(listing))
              => MapPairs(get_image_date_map(l)) = MapPairs(date_map)

(***************************************************************************)
(* era5_retriever.py: helpers                                              *)
(***************************************************************************)
\* The days of the model's calendar for which LST files may exist.
EraDays == {1, 2}

\* The mutant of the flag below: existing outputs are fetched again.
SKIPPING_off == FALSE

\* line 15
SKIPPING == TRUE

\* A .tif of the input folder: token is "date" when the text after the last
\* "_" parses with %Y-%m-%d (day is its day number), "bad" when strptime
\* raises ValueError; valid tells whether rasterio can open the file.
LstFile(stem, token, day, valid) ==
    [stem |-> stem, token |-> token, day |-> day, valid |-> valid]

\* The input folders of the model, as glob lists them.
EraListings ==
    { <<>>,
      << LstFile("lst", "bad", 0, TRUE) >>,
      << LstFile("lst", "date", 1, TRUE), LstFile("lst", "date", 2, TRUE) >>,
      << LstFile("lst", "date", 2, TRUE), LstFile("lst", "bad", 0, TRUE),
         LstFile("lst", "date", 1, TRUE), LstFile("b", "date", 2, TRUE) >>,
      << LstFile("lst", "date", 1, FALSE), LstFile("lst", "date", 2, TRUE) >> }

\* The raster an input file holds: every LST file is on the reference grid.
LstRaster(f) ==
    IF f.valid THEN Raster(RefGrid, 1, "float32", "nan", "lst") ELSE CorruptRaster

SetMin(S) == CHOOSE x \in S : \A y \in S : x <= y

\* sorted(list(dates))
RECURSIVE Sorted(_)
Sorted(S) == IF S = {} THEN <<>> ELSE <<SetMin(S)>> \o Sorted(S \ {SetMin(S)})

\* The dates are returned in the order of the listing, one per file.
get_dates_in_listing_order(l) ==
    LET parsed == SelectSeq(l, LAMBDA f : f.token = "date")
    IN  [i \in 1..Len(parsed) |-> parsed[i].day]

\* get_dates_from_filenames (lines 44-56): the unique parseable dates, sorted.
get_dates_from_filenames(l) ==
    Sorted({ l[i].day : i \in { j \in 1..Len(l) : l[j].token = "date" } })

\* verify_image (lines 58-69).  When rasterio.open raises, the except clause
\* evaluates the name RasterioIOError, which the module never imports
\* (lines 1-12): the NameError leaves verify_image.
verify_image(r) ==
    IF ~r.valid THEN "NameError"
    ELSE IF r.grid.crs # "none" /\ r.grid.width > 0 /\ r.grid.height > 0
         THEN "True" ELSE "False"

\* Band names and file names are sequences of words; b in name is the
\* substring test on them.
IsSubstring(b, name) ==
    \E i \in 1..(Len(name) - Len(b) + 1) : SubSeq(name, i, i + Len(b) - 1) = b

\* line 230: bands=['temperature_2m', 'skin_temperature']
ERA5_BANDS == << <<"temperature", "2m">>, <<"skin", "temperature">> >>

TifT2m == <<"img", "temperature", "2m", "tif">>
TifSkin == <<"img", "skin", "temperature", "tif">>

\* What the provider's ZIP may hold (line 99: its names ending in .tif).
Packages ==
    { <<>>, <<TifT2m, TifSkin>>, <<TifSkin, TifT2m>>, <<TifT2m>> }

\* The grids a downloaded raster may be on.
DownloadGrids ==
    { RefGrid, CoarseGrid,
      [RefGrid EXCEPT !.crs = "EPSG:3857"],
      [CoarseGrid EXCEPT !.crs = "none"] }

\* next((t for t in tif_files if b in os.path.basename(t)), None)
FirstMatch(b, tif_files) ==
    LET hits == { i \in 1..Len(tif_files) : IsSubstring(b, tif_files[i]) }
    IN  IF hits = {} THEN <<>> ELSE << tif_files[SetMin(hits)] >>

RECURSIVE MatchBands(_, _)
MatchBands(bands, tif_files) ==
    IF bands = <<>> THEN <<>>
    ELSE FirstMatch(Head(bands), tif_files) \o MatchBands(Tail(bands), tif_files)

\* The files are combined as the package lists them.
ordered_tifs_package_order(bands, tif_files) == tif_files

\* lines 110-118: the files in the order of the requested bands, or, when
\* not every band found a file, in the package's order.
ordered_tifs(bands, tif_files) ==
    IF Len(MatchBands(bands, tif_files)) # Len(bands)
    THEN tif_files
    ELSE MatchBands(bands, tif_files)

\* lines 121-128: band 1 of every ordered file, read from the scratch folder.
read_band_arrays(tifs, g, day) ==
    [i \in 1..Len(tifs) |-> Band(<<tifs[i], day>>, g)]

\* line 132: out_path opened for writing with the first file's profile and
\* count=len(band_arrays); nothing is written yet.
export_profile(g, n) ==
    [exists |-> TRUE, valid |-> FALSE, grid |-> g, count |-> n,
     dtype |-> "float64", nodata |-> "nan", bands |-> <<>>]

\* The temporary file with the first k bands of src reprojected.
RECURSIVE resampled_bands(_, _, _, _)
resampled_bands(t, src, ref, k) ==
    IF k = 0 THEN t
    ELSE write_band(resampled_bands(t, src, ref, k - 1), src, ref, k)

\* Where a write of resample_to_match_reference may fail in one call.
ResampleFaults == {"none", "create", "write", "move"}

\* resample_to_match_reference (lines 143-189) as one call on the pair
\* (source path, temporary path): the rasters both hold afterwards and how
\* the call ended.
resample_to_match_reference(src, tmp, ref, fault) ==
    LET full == close_raster(resampled_bands(resample_meta(src, ref), src, ref, src.count))
        failed(exc, t) ==
            [src |-> src, tmp |-> t,
             result |-> IF resample_catches(exc) THEN "error" ELSE "raised"]
    IN  IF ~ref.valid \/ ~src.valid THEN failed("RasterioIOError", tmp)
        ELSE IF already_aligned(src, ref)
             THEN [src |-> src, tmp |-> tmp, result |-> "noop"]
        ELSE IF fault = "create" THEN failed("RasterioIOError", tmp)
        ELSE IF reproject_raises(src, ref)
             THEN failed("CRSError", close_raster(resample_meta(src, ref)))
        ELSE IF fault = "write"
             THEN failed("OSError", close_raster(resample_meta(src, ref)))
        ELSE IF fault = "move" THEN failed("OSError", full)
        ELSE [src |-> move_over_source(full, src), tmp |-> NoRaster,
              result |-> "resampled"]

(***************************************************************************)
(* era5_retriever.py: main, get_era5_for_date, export_ee_image             *)
(***************************************************************************)
NoFiles == [d \in EraDays |-> NoRaster]

EraInit ==
    /\ e_pc = "setup"
    /\ e_run = 1
    /\ lst_folder \in EraListings
    /\ e_ref = NoRaster
    /\ target_dates = <<>>
    /\ e_idx = 0
    /\ out = NoFiles
    /\ tmpf = NoFiles
    /\ temp_dl = FALSE
    /\ band_arrays = <<>>
    /\ nq = [d \in EraDays |-> 0]
    /\ nreq = [d \in EraDays |-> 0]
    /\ out_start = NoFiles
    /\ aligned = [d \in EraDays |-> "none"]
    /\ ended = {}
    /\ abort_in = "none"
    /\ e_res = [d \in EraDays |-> "none"]

EraIdle ==
    /\ e_pc = "off"
    /\ e_run = 0
    /\ lst_folder = <<>>
    /\ e_ref = <<>>
    /\ target_dates = <<>>
    /\ e_idx = 0
    /\ out = <<>>
    /\ tmpf = <<>>
    /\ temp_dl = FALSE
    /\ band_arrays = <<>>
    /\ nq = <<>>
    /\ nreq = <<>>
    /\ out_start = <<>>
    /\ aligned = <<>>
    /\ ended = {}
    /\ abort_in = "none"
    /\ e_res = <<>>

\* The date of the loop iteration in progress.
cur == target_dates[e_idx]

InLoop == e_idx >= 1 /\ e_idx <= Len(target_dates)

\* main, lines 253-278: the sample raster, the ROI and the dates; each of
\* the three failures prints and returns.
EraSetup ==
    /\ e_pc = "setup"
    /\ IF \/ lst_folder = <<>>
          \/ ~Head(lst_folder).valid
          \/ get_dates_from_filenames(lst_folder) = <<>>
       THEN /\ e_pc' = "done"
            /\ UNCHANGED <<e_ref, target_dates, e_idx>>
       ELSE /\ e_ref' = LstRaster(Head(lst_folder))
            /\ target_dates' = get_dates_from_filenames(lst_folder)
            /\ e_idx' = 1
            /\ e_pc' = "date"
    /\ UNCHANGED <<e_run, lst_folder, out, tmpf, temp_dl, band_arrays, nq, nreq,
                   out_start, aligned, ended, abort_in, not_era>>
    /\ UNCHANGED e_res

\* get_era5_for_date returns and the for loop of main (line 281) moves on.
NextDate ==
    /\ e_idx' = e_idx + 1
    /\ ended' = ended \cup {cur}
    /\ e_pc' = "date"

\* An exception leaves main.
Abort(where) ==
    /\ e_pc' = "aborted"
    /\ abort_in' = where

\* line 281: the loop is exhausted.
EraLoopEnd ==
    /\ e_pc = "date"
    /\ e_idx > Len(target_dates)
    /\ e_pc' = "final"
    /\ UNCHANGED <<e_run, lst_folder, e_ref, target_dates, e_idx, out, tmpf,
                   temp_dl, band_arrays, nq, nreq, out_start, aligned, ended,
                   abort_in, not_era>>
    /\ UNCHANGED e_res

\* get_era5_for_date, lines 199-209: the output exists; it is verified and
\* aligned, outside any try block.
EraSkipExisting ==
    /\ e_pc = "date"
    /\ InLoop
    /\ SKIPPING /\ out[cur].exists
    /\ IF verify_image(out[cur]) = "NameError"
       THEN /\ Abort("date")
            /\ UNCHANGED <<out, tmpf, aligned, e_idx, ended>>
       ELSE \E fault \in ResampleFaults :
              LET r == resample_to_match_reference(out[cur], tmpf[cur], e_ref, fault)
              IN  /\ out' = [out EXCEPT ![cur] = r.src]
                  /\ tmpf' = [tmpf EXCEPT ![cur] = r.tmp]
                  /\ aligned' = [aligned EXCEPT ![cur] = r.result]
                  /\ IF r.result = "raised"
                     THEN Abort("date") /\ UNCHANGED <<e_idx, ended>>
                     ELSE NextDate /\ UNCHANGED abort_in
    /\ UNCHANGED <<e_run, lst_folder, e_ref, target_dates, temp_dl, band_arrays,
                   nq, nreq, out_start, not_era>>
    /\ UNCHANGED e_res

\* The mutant of EraQuery: an empty query result raises out of main.
EraQuery_empty_raises ==
    /\ e_pc = "date"
    /\ InLoop
    /\ ~(SKIPPING /\ out[cur].exists)
    /\ nq' = [nq EXCEPT ![cur] = @ + 1]
    /\ \E r \in {"EEException", "empty", "found"} :
          /\ IF r = "found"
             THEN e_pc' = "export" /\ UNCHANGED <<e_idx, ended, abort_in>>
             ELSE IF r = "empty"
             THEN Abort("date") /\ UNCHANGED <<e_idx, ended>>
             ELSE NextDate /\ UNCHANGED abort_in
          /\ e_res' = (IF r = "empty" THEN [e_res EXCEPT ![cur] = "empty"] ELSE e_res)
    /\ UNCHANGED <<e_run, lst_folder, e_ref, target_dates, out, tmpf, temp_dl,
                   band_arrays, nreq, out_start, aligned, not_era>>

\* get_era5_for_date, lines 211-225: the collection is queried.  An
\* EEException and an empty result both end the date.
EraQuery ==
    /\ e_pc = "date"
    /\ InLoop
    /\ ~(SKIPPING /\ out[cur].exists)
    /\ nq' = [nq EXCEPT ![cur] = @ + 1]
    /\ \E r \in {"EEException", "empty", "found"} :
          /\ IF r = "found"
             THEN e_pc' = "export" /\ UNCHANGED <<e_idx, ended>>
             ELSE NextDate
          /\ e_res' = (IF r = "empty" THEN [e_res EXCEPT ![cur] = "empty"] ELSE e_res)
    /\ UNCHANGED <<e_run, lst_folder, e_ref, target_dates, out, tmpf, temp_dl,
                   band_arrays, nreq, out_start, aligned, abort_in, not_era>>

\* export_ee_image, lines 73-83: the scratch folder is made, the image is
\* clipped and its band names are fetched.
EraExportStart ==
    /\ e_pc = "export"
    /\ temp_dl' = TRUE
    /\ nq' = [nq EXCEPT ![cur] = @ + 1]
    /\ \E r \in {"EEException", "no bands", "ok"} :
          e_pc' = (IF r = "ok" THEN "download" ELSE "cleanup")
    /\ UNCHANGED <<e_run, lst_folder, e_ref, target_dates, e_idx, out, tmpf,
                   band_arrays, nreq, out_start, aligned, ended, abort_in, not_era>>
    /\ UNCHANGED e_res

\* export_ee_image, lines 85-130: the download URL is requested, the ZIP is
\* fetched and unpacked, the bands are ordered and read.
EraDownload ==
    /\ e_pc = "download"
    /\ nq' = [nq EXCEPT ![cur] = @ + 1]
    /\ \E r \in {"EEException", "HTTPError", "BadZipFile", "ok"} :
          /\ nreq' = (IF r = "EEException" THEN nreq ELSE [nreq EXCEPT ![cur] = @ + 1])
          /\ IF r = "ok"
             THEN \E tif_files \in Packages, g \in DownloadGrids :
                     IF tif_files = <<>>
                     THEN e_pc' = "cleanup" /\ UNCHANGED <<band_arrays, e_res>>
                     ELSE /\ band_arrays' =
                               read_band_arrays(ordered_tifs(ERA5_BANDS, tif_files), g, cur)
                          /\ e_res' = [e_res EXCEPT ![cur] = "data"]
                          /\ e_pc' = "write_open"
             ELSE e_pc' = "cleanup" /\ UNCHANGED <<band_arrays, e_res>>
    /\ UNCHANGED <<e_run, lst_folder, e_ref, target_dates, e_idx, out, tmpf,
                   temp_dl, out_start, aligned, ended, abort_in, not_era>>

\* export_ee_image, line 132: out_path itself is opened for writing
\* (ok = FALSE: the open fails and no file is made).
EraWriteOpen ==
    /\ e_pc = "write_open"
    /\ \E ok \in BOOLEAN :
          IF ok
          THEN /\ out' = [out EXCEPT ![cur] =
                             export_profile(band_arrays[1].path[1], Len(band_arrays))]
               /\ e_pc' = "write"
               /\ UNCHANGED e_res
          ELSE /\ e_pc' = "cleanup"
               /\ e_res' = [e_res EXCEPT ![cur] = "fault"]
               /\ UNCHANGED out
    /\ UNCHANGED <<e_run, lst_folder, e_ref, target_dates, e_idx, tmpf, temp_dl,
                   band_arrays, nq, nreq, out_start, aligned, ended, abort_in,
                   not_era>>

\* export_ee_image, lines 133-134: one band is written into out_path
\* (ok = FALSE: the write raises; the with-block closes the file, which is
\* then readable and lacks the bands not yet written).
EraWriteBand ==
    /\ e_pc = "write"
    /\ LET k == Len(out[cur].bands) + 1 IN
       \E ok \in BOOLEAN :
          IF ok
          THEN /\ out' = [out EXCEPT ![cur] =
                             IF k = out[cur].count
                             THEN close_raster([@ EXCEPT !.bands = Append(@, band_arrays[k])])
                             ELSE [@ EXCEPT !.bands = Append(@, band_arrays[k])]]
               /\ e_pc' = (IF k = out[cur].count THEN "cleanup" ELSE "write")
               /\ UNCHANGED e_res
          ELSE /\ out' = [out EXCEPT ![cur] = close_raster(@)]
               /\ e_res' = [e_res EXCEPT ![cur] = "fault"]
               /\ e_pc' = "cleanup"
    /\ UNCHANGED <<e_run, lst_folder, e_ref, target_dates, e_idx, tmpf, temp_dl,
                   band_arrays, nq, nreq, out_start, aligned, ended, abort_in,
                   not_era>>

\* export_ee_image, lines 137-141: the handler prints, the finally clause
\* removes the scratch folder.
EraCleanup ==
    /\ e_pc = "cleanup"
    /\ temp_dl' = FALSE
    /\ e_pc' = "sleep"
    /\ UNCHANGED <<e_run, lst_folder, e_ref, target_dates, e_idx, out, tmpf,
                   band_arrays, nq, nreq, out_start, aligned, ended, abort_in,
                   not_era>>
    /\ UNCHANGED e_res

\* get_era5_for_date, lines 236-245: the pause, then the new file, if there
\* is one, is aligned; an exception is caught at line 244.
EraSleepAlign ==
    /\ e_pc = "sleep"
    /\ IF out[cur].exists
       THEN \E fault \in ResampleFaults :
              LET r == resample_to_match_reference(out[cur], tmpf[cur], e_ref, fault)
              IN  /\ out' = [out EXCEPT ![cur] = r.src]
                  /\ tmpf' = [tmpf EXCEPT ![cur] = r.tmp]
                  /\ aligned' = [aligned EXCEPT ![cur] = r.result]
       ELSE UNCHANGED <<out, tmpf, aligned>>
    /\ NextDate
    /\ UNCHANGED <<e_run, lst_folder, e_ref, target_dates, temp_dl, band_arrays,
                   nq, nreq, out_start, abort_in, not_era>>
    /\ UNCHANGED e_res

\* The files glob('*.tif') finds in the output folder (line 287): the
\* outputs and the temporary files, whose names end in .tif too.
OutputTifs ==
    { out[d] : d \in { x \in EraDays : out[x].exists } }
    \cup { tmpf[d] : d \in { x \in EraDays : tmpf[x].exists } }

\* main, lines 285-291: the final verification pass.
EraFinal ==
    /\ e_pc = "final"
    /\ IF \E f \in OutputTifs : verify_image(f) = "NameError"
       THEN Abort("final")
       ELSE e_pc' = "done" /\ UNCHANGED abort_in
    /\ UNCHANGED <<e_run, lst_folder, e_ref, target_dates, e_idx, out, tmpf,
                   temp_dl, band_arrays, nq, nreq, out_start, aligned, ended,
                   not_era>>
    /\ UNCHANGED e_res

EraRunning ==
    e_pc \in {"setup", "date", "export", "download", "write_open", "write",
              "cleanup", "sleep", "final"}

\* The process is killed; the files stay as they are (a file open for
\* writing stays unreadable).
EraCrash ==
    /\ EraRunning
    /\ e_pc' = "crashed"
    /\ UNCHANGED <<e_run, lst_folder, e_ref, target_dates, e_idx, out, tmpf,
                   temp_dl, band_arrays, nq, nreq, out_start, aligned, ended,
                   abort_in, not_era>>
    /\ UNCHANGED e_res

\* The pipeline is run again on the same folders.
EraRestart ==
    /\ e_pc \in {"done", "aborted", "crashed"}
    /\ e_run < MaxRuns
    /\ e_run' = e_run + 1
    /\ e_pc' = "setup"
    /\ e_ref' = NoRaster
    /\ target_dates' = <<>>
    /\ e_idx' = 0
    /\ band_arrays' = <<>>
    /\ nq' = [d \in EraDays |-> 0]
    /\ nreq' = [d \in EraDays |-> 0]
    /\ out_start' = out
    /\ aligned' = [d \in EraDays |-> "none"]
    /\ ended' = {}
    /\ abort_in' = "none"
    /\ e_res' = [d \in EraDays |-> "none"]
    /\ UNCHANGED <<lst_folder, out, tmpf, temp_dl, not_era>>

EraNext ==
    \/ EraSetup \/ EraLoopEnd \/ EraSkipExisting \/ EraQuery \/ EraExportStart
    \/ EraDownload \/ EraWriteOpen \/ EraWriteBand \/ EraCleanup
    \/ EraSleepAlign \/ EraFinal \/ EraCrash \/ EraRestart

\* The ERA5 retriever run up to MaxRuns times over one output folder.
Init == EraInit /\ SyncIdle /\ AlignIdle /\ NdviIdle /\ DateIdle /\ FilterIdle /\ QueryIdle /\ LandsatIdle /\ ScratchIdle /\ PipelineIdle
Spec == Init /\ [][EraNext]_vars

(***************************************************************************)
(* Specifications                                                          *)
(***************************************************************************)
\* The date index: a folder is scanned, then dates are looked up.
InitSync == SyncInit /\ AlignIdle /\ EraIdle /\ NdviIdle /\ DateIdle /\ FilterIdle /\ QueryIdle /\ LandsatIdle /\ ScratchIdle /\ PipelineIdle
SpecSync == InitSync /\ [][SyncNext]_vars

\* The grid aligner called on one source path, up to MaxCalls times.
InitAlign == AlignInit /\ SyncIdle /\ EraIdle /\ NdviIdle /\ DateIdle /\ FilterIdle /\ QueryIdle /\ LandsatIdle /\ ScratchIdle /\ PipelineIdle
SpecAlign == InitAlign /\ [][AlignNext]_vars

(***************************************************************************)
(* Properties of the ERA5 retriever (Spec)                                 *)
(***************************************************************************)
\* C2: once a run has ended, by returning, by an exception or by the
\* process being killed, every output path is absent or holds a complete
\* raster: never a truncated or partly written one.
C2_AtomicOutputs ==
    e_pc \in {"done", "aborted", "crashed"} =>
        \A d \in EraDays : out[d].exists => Complete(out[d])

\* The output of day d was present at the start of the run and had the
\* reference's width, height and transform.
PresentAndAligned(d) ==
    /\ out_start[d].exists /\ out_start[d].valid
    /\ e_ref.valid
    /\ out_start[d].grid.width = e_ref.grid.width
    /\ out_start[d].grid.height = e_ref.grid.height
    /\ out_start[d].grid.transform = e_ref.grid.transform

\* C3: a date whose output was present and on the reference's width, height
\* and transform when the run started gets no provider query and no
\* download request in that run, and its file is left as it was.
C3_ResumeSafe ==
    \A d \in EraDays :
        PresentAndAligned(d) =>
            /\ nq[d] = 0
            /\ nreq[d] = 0
            /\ out[d] = out_start[d]

\* C3, its case: the second run has processed a date whose file the first
\* run left aligned, and the aligner found nothing to do.
C3_Witness ==
    \E d \in ended :
        /\ e_run = 2
        /\ PresentAndAligned(d)
        /\ aligned[d] = "noop"
        /\ e_pc = "done"

(***************************************************************************)
(* gldas21_retriever.py: download_gldas_lsts                               *)
(* export_ee_image and resample_to_match_reference are the ERA5 functions  *)
(* line for line; the loop around them differs.                            *)
(***************************************************************************)
\* gldas21_retriever.py line 18
SKIP_EXISTING == TRUE

\* gldas21_retriever.py line 20
GLDAS_BANDS ==
    << <<"SoilTMP0_10cm_inst">>, <<"SoilTMP10_40cm_inst">>,
       <<"SoilTMP40_100cm_inst">>, <<"SoilTMP100_200cm_inst">> >>

GldasTif(i) == <<"img">> \o GLDAS_BANDS[i] \o <<"tif">>

\* What the provider's ZIP may hold (line 85).
GldasPackages ==
    { <<>>, << GldasTif(1), GldasTif(2), GldasTif(3), GldasTif(4) >> }

\* The grids a downloaded raster may be on.
GldasGrids == { RefGrid, [CoarseGrid EXCEPT !.crs = "none"] }

\* verify_image of gldas21_retriever.py (lines 61-66): False when the file
\* cannot be opened.
gldas_verify_image(r) ==
    r.valid /\ r.grid.crs # "none" /\ r.grid.width > 0 /\ r.grid.height > 0

\* line 189
GldasSkips(r) == SKIP_EXISTING /\ r.exists /\ gldas_verify_image(r)

\* download_gldas_lsts, lines 172-184: no sample file and no dates print and
\* return; get_roi_coords_from_tif (line 177) is called outside any try.
GlSetup ==
    /\ e_pc = "setup"
    /\ IF lst_folder = <<>>
       THEN e_pc' = "done" /\ UNCHANGED <<e_ref, target_dates, e_idx, abort_in>>
       ELSE IF ~Head(lst_folder).valid
       THEN Abort("setup") /\ UNCHANGED <<e_ref, target_dates, e_idx>>
       ELSE IF get_dates_from_filenames(lst_folder) = <<>>
       THEN e_pc' = "done" /\ UNCHANGED <<e_ref, target_dates, e_idx, abort_in>>
       ELSE /\ e_ref' = LstRaster(Head(lst_folder))
            /\ target_dates' = get_dates_from_filenames(lst_folder)
            /\ e_idx' = 1
            /\ e_pc' = "date"
            /\ UNCHANGED abort_in
    /\ UNCHANGED <<e_run, lst_folder, out, tmpf, temp_dl, band_arrays, nq, nreq,
                   out_start, aligned, ended, not_era>>
    /\ UNCHANGED e_res

\* line 186: the loop is exhausted and the function returns.
GlLoopEnd ==
    /\ e_pc = "date"
    /\ e_idx > Len(target_dates)
    /\ e_pc' = "done"
    /\ UNCHANGED <<e_run, lst_folder, e_ref, target_dates, e_idx, out, tmpf,
                   temp_dl, band_arrays, nq, nreq, out_start, aligned, ended,
                   abort_in, not_era>>
    /\ UNCHANGED e_res

\* lines 189-192: the output exists and passes verification; it is aligned.
GlSkipExisting ==
    /\ e_pc = "date"
    /\ InLoop
    /\ GldasSkips(out[cur])
    /\ \E fault \in ResampleFaults :
          LET r == resample_to_match_reference(out[cur], tmpf[cur], e_ref, fault)
          IN  /\ out' = [out EXCEPT ![cur] = r.src]
              /\ tmpf' = [tmpf EXCEPT ![cur] = r.tmp]
              /\ aligned' = [aligned EXCEPT ![cur] = r.result]
              /\ IF r.result = "raised"
                 THEN Abort("date") /\ UNCHANGED <<e_idx, ended>>
                 ELSE NextDate /\ UNCHANGED abort_in
    /\ UNCHANGED <<e_run, lst_folder, e_ref, target_dates, temp_dl, band_arrays,
                   nq, nreq, out_start, not_era>>
    /\ UNCHANGED e_res

\* lines 193-201 and export_ee_image lines 69-76: the image is described
\* without a request (first() is lazy), the scratch folder is made and the
\* number of bands is fetched.
GlExportStart ==
    /\ e_pc = "date"
    /\ InLoop
    /\ ~GldasSkips(out[cur])
    /\ temp_dl' = TRUE
    /\ nq' = [nq EXCEPT ![cur] = @ + 1]
    /\ \E r \in {"EEException", "no bands", "ok"} :
          e_pc' = (IF r = "ok" THEN "download" ELSE "cleanup")
    /\ UNCHANGED <<e_run, lst_folder, e_ref, target_dates, e_idx, out, tmpf,
                   band_arrays, nreq, out_start, aligned, ended, abort_in, not_era>>
    /\ UNCHANGED e_res

\* export_ee_image, lines 77-115.
GlDownload ==
    /\ e_pc = "download"
    /\ nq' = [nq EXCEPT ![cur] = @ + 1]
    /\ \E r \in {"EEException", "HTTPError", "BadZipFile", "ok"} :
          /\ nreq' = (IF r = "EEException" THEN nreq ELSE [nreq EXCEPT ![cur] = @ + 1])
          /\ IF r = "ok"
             THEN \E tif_files \in GldasPackages, g \in GldasGrids :
                     IF tif_files = <<>>
                     THEN e_pc' = "cleanup" /\ UNCHANGED band_arrays
                     ELSE /\ band_arrays' =
                               read_band_arrays(ordered_tifs(GLDAS_BANDS, tif_files), g, cur)
                          /\ e_pc' = "write_open"
             ELSE e_pc' = "cleanup" /\ UNCHANGED band_arrays
    /\ UNCHANGED <<e_run, lst_folder, e_ref, target_dates, e_idx, out, tmpf,
                   temp_dl, out_start, aligned, ended, abort_in, not_era>>
    /\ UNCHANGED e_res

\* lines 203-209: the file at out_path, if there is one, is aligned; then
\* the pause.
GlAlignSleep ==
    /\ e_pc = "sleep"
    /\ IF out[cur].exists
       THEN \E fault \in ResampleFaults :
              LET r == resample_to_match_reference(out[cur], tmpf[cur], e_ref, fault)
              IN  /\ out' = [out EXCEPT ![cur] = r.src]
                  /\ tmpf' = [tmpf EXCEPT ![cur] = r.tmp]
                  /\ aligned' = [aligned EXCEPT ![cur] = r.result]
       ELSE UNCHANGED <<out, tmpf, aligned>>
    /\ NextDate
    /\ UNCHANGED <<e_run, lst_folder, e_ref, target_dates, temp_dl, band_arrays,
                   nq, nreq, out_start, abort_in, not_era>>
    /\ UNCHANGED e_res

GldasNext ==
    \/ GlSetup \/ GlLoopEnd \/ GlSkipExisting \/ GlExportStart \/ GlDownload
    \/ EraWriteOpen \/ EraWriteBand \/ EraCleanup \/ GlAlignSleep
    \/ EraCrash \/ EraRestart

\* The GLDAS retriever run up to MaxRuns times over one output folder.
InitGldas == EraInit /\ SyncIdle /\ AlignIdle /\ NdviIdle /\ DateIdle /\ FilterIdle /\ QueryIdle /\ LandsatIdle /\ ScratchIdle /\ PipelineIdle
SpecGldas == InitGldas /\ [][GldasNext]_vars

(***************************************************************************)
(* Properties of the skip of existing outputs                              *)
(***************************************************************************)
\* The iteration of day d is over in this run, by its end or by an
\* exception that left it.
Processed(d) ==
    \/ d \in ended
    \/ e_pc = "aborted" /\ abort_in = "date" /\ InLoop /\ cur = d

\* C4: a date whose output file existed when the date was processed got no
\* network call (no provider query, no download request), and the existing
\* file was passed through the grid aligner.
C4_SkipStillAligns ==
    \A d \in EraDays :
        Processed(d) /\ out_start[d].exists =>
            /\ nq[d] = 0
            /\ nreq[d] = 0
            /\ aligned[d] # "none"

(***************************************************************************)
(* ndvi_retrieval.py: download_ndvi                                        *)
(***************************************************************************)
\* The days composites may be stamped with; day 0 is the exclude date
\* 1900-01-01 of the placeholders.
NdviDays == {8, 16}

Composite(day) == [day |-> day, ndvi |-> TRUE]
Placeholder == [day |-> 0, ndvi |-> FALSE]

\* The collections handed to download_ndvi.
Collections ==
    { <<>>,
      << Composite(8) >>,
      << Composite(8), Composite(16) >>,
      << Placeholder, Composite(8) >>,
      << Composite(8), Placeholder, Composite(16) >> }

\* line 181
max_retries == 3

NdviInit ==
    /\ n_pc = "size"
    /\ n_period = [start_date |-> 0, end_date |-> 0]
    /\ observations = {}
    /\ composites \in Collections
    /\ n_i = 0
    /\ n_files \in SUBSET NdviDays
    /\ attempt = 0
    /\ download_success = FALSE
    /\ n_temp = 0
    /\ n_q = [i \in 1..Len(composites) |-> 0]
    /\ n_req = [i \in 1..Len(composites) |-> 0]
    /\ n_waits = [i \in 1..Len(composites) |-> <<>>]
    /\ n_ended = {}
    /\ n_abort = "none"

\* The image of the iteration in progress.
image == composites[n_i]

\* An exception leaves download_ndvi.
NdviAbort(where) ==
    /\ n_pc' = "aborted"
    /\ n_abort' = where

\* The for loop (line 148) moves on to the next image.
NextImage ==
    /\ n_i' = n_i + 1
    /\ n_ended' = n_ended \cup {n_i}
    /\ n_pc' = "head"

\* lines 138-139: the size of the collection is fetched, outside any try.
NdviSize ==
    /\ n_pc = "size"
    /\ \E r \in {"EEException", "ok"} :
          IF r = "ok"
          THEN n_i' = 1 /\ n_pc' = "head" /\ UNCHANGED n_abort
          ELSE NdviAbort("setup") /\ UNCHANGED n_i
    /\ UNCHANGED <<n_period, observations, composites, n_files, attempt, download_success, n_temp, n_q,
                   n_req, n_waits, n_ended, not_ndvi>>

\* line 148: range(size) is exhausted.
NdviLoopEnd ==
    /\ n_pc = "head"
    /\ n_i > Len(composites)
    /\ n_pc' = "done"
    /\ UNCHANGED <<n_period, observations, composites, n_i, n_files, attempt, download_success, n_temp,
                   n_q, n_req, n_waits, n_ended, n_abort, not_ndvi>>

\* lines 149-168: the image's band names, time stamp and date string are
\* fetched (getInfo, outside any try); a placeholder and an image whose file
\* exists are skipped.
NdviHead ==
    /\ n_pc = "head"
    /\ n_i <= Len(composites)
    /\ n_q' = [n_q EXCEPT ![n_i] = @ + 1]
    /\ \E r \in {"EEException", "ok"} :
          IF r = "EEException"
          THEN NdviAbort("date") /\ UNCHANGED <<n_i, n_ended>>
          ELSE IF ~image.ndvi \/ image.day = 0 \/ image.day \in n_files
          THEN NextImage /\ UNCHANGED n_abort
          ELSE n_pc' = "url" /\ UNCHANGED <<n_i, n_ended, n_abort>>
    /\ UNCHANGED <<n_period, observations, composites, n_files, attempt, download_success, n_temp,
                   n_req, n_waits, not_ndvi>>

\* lines 170-182: the download URL is requested, outside any try.
NdviUrl ==
    /\ n_pc = "url"
    /\ n_q' = [n_q EXCEPT ![n_i] = @ + 1]
    /\ \E r \in {"EEException", "ok"} :
          IF r = "EEException"
          THEN NdviAbort("date") /\ UNCHANGED <<attempt, download_success>>
          ELSE /\ attempt' = 0
               /\ download_success' = FALSE
               /\ n_pc' = "mkdtemp"
               /\ UNCHANGED n_abort
    /\ UNCHANGED <<n_period, observations, composites, n_i, n_files, n_temp, n_req, n_waits, n_ended,
                   not_ndvi>>

\* lines 184-186: an attempt begins with a fresh scratch directory.
NdviMkdtemp ==
    /\ n_pc = "mkdtemp"
    /\ n_temp' = n_temp + 1
    /\ n_pc' = "fetch"
    /\ UNCHANGED <<n_period, observations, composites, n_i, n_files, attempt, download_success, n_q,
                   n_req, n_waits, n_ended, n_abort, not_ndvi>>

\* lines 188-220: the package is requested, unpacked and its first .tif is
\* moved to the output folder; every failure is caught and logged
\* ("Exception": any other error raised before the move has put the file
\* in place).
NdviFetch ==
    /\ n_pc = "fetch"
    /\ n_req' = [n_req EXCEPT ![n_i] = @ + 1]
    /\ \E r \in {"RequestException", "BadZipFile", "no tif", "Exception", "ok"} :
          IF r = "ok"
          THEN /\ n_files' = n_files \cup {image.day}
               /\ download_success' = TRUE
          ELSE UNCHANGED <<n_files, download_success>>
    /\ n_pc' = "rmtree"
    /\ UNCHANGED <<n_period, observations, composites, n_i, attempt, n_temp, n_q, n_waits, n_ended,
                   n_abort, not_ndvi>>

\* lines 221-230: the finally clause removes the scratch directory; then
\* the retry loop breaks, goes on to a pause, or is exhausted.
NdviRmtree ==
    /\ n_pc = "rmtree"
    /\ n_temp' = n_temp - 1
    /\ IF download_success \/ attempt = max_retries - 1
       THEN NextImage
       ELSE n_pc' = "backoff" /\ UNCHANGED <<n_i, n_ended>>
    /\ UNCHANGED <<n_period, observations, composites, n_files, attempt, download_success, n_q, n_req,
                   n_waits, n_abort, not_ndvi>>

\* The mutant of the action below: the pause does not grow.
NdviBackoff_constant_wait ==
    /\ n_pc = "backoff"
    /\ n_waits' = [n_waits EXCEPT ![n_i] = Append(@, 2)]
    /\ attempt' = attempt + 1
    /\ n_pc' = "mkdtemp"
    /\ UNCHANGED <<n_period, observations, composites, n_i, n_files, download_success, n_temp, n_q,
                   n_req, n_ended, n_abort, not_ndvi>>

\* lines 226-227: the pause before the next attempt.
NdviBackoff ==
    /\ n_pc = "backoff"
    /\ n_waits' = [n_waits EXCEPT ![n_i] = Append(@, 2 * (attempt + 1))]
    /\ attempt' = attempt + 1
    /\ n_pc' = "mkdtemp"
    /\ UNCHANGED <<n_period, observations, composites, n_i, n_files, download_success, n_temp, n_q,
                   n_req, n_ended, n_abort, not_ndvi>>

NdviNext ==
    \/ NdviSize \/ NdviLoopEnd \/ NdviHead \/ NdviUrl \/ NdviMkdtemp
    \/ NdviFetch \/ NdviRmtree \/ NdviBackoff

\* download_ndvi called once on one collection.
InitNdvi == NdviInit /\ SyncIdle /\ AlignIdle /\ EraIdle /\ DateIdle /\ FilterIdle /\ QueryIdle /\ LandsatIdle /\ ScratchIdle /\ PipelineIdle
SpecNdvi == InitNdvi /\ [][NdviNext]_vars

(***************************************************************************)
(* Properties of the NDVI download loop (SpecNdvi)                         *)
(***************************************************************************)
\* C1: an error raised while one date is processed never leaves that date's
\* iteration: no exception leaves the loop, and when the function has
\* returned every image of the collection has had its iteration.
C1_DateErrorsContained ==
    /\ n_abort # "date"
    /\ n_pc = "done" => n_ended = 1..Len(composites)

(***************************************************************************)
(* test.py: extract_date_from_filename                                     *)
(***************************************************************************)
\* Longest file name, counted in date-shaped tokens.
MaxTokens == 2

\* The file names of the model: their date-shaped tokens from left to right.
\* A token is a stretch of the name that one of the patterns can match:
\* shape "dash" is \d{4}-\d{2}-\d{2}, "underscore" is \d{4}_\d{2}_\d{2},
\* "digits" is eight digits in a row; the year is 2022, mm and dd are the
\* digits of month and day.
Filenames ==
    LET DateTokens == [shape : {"dash", "underscore", "digits"},
                       mm : {1, 2, 13}, dd : {5, 30}]
    IN  UNION { [1..n -> DateTokens] : n \in 0..MaxTokens }

\* lines 19-24: the patterns in the order of the list; the fourth matches
\* what the third matches.
patterns == << "dash", "underscore", "digits", "digits" >>

\* re.search(pattern, filename), line 27: the leftmost match, <<>> for None.
re_search(pattern, name) ==
    LET hits == { i \in 1..Len(name) : name[i].shape = pattern }
    IN  IF hits = {} THEN <<>>
        ELSE << name[CHOOSE i \in hits : \A j \in hits : i <= j] >>

\* datetime.strptime on a matched token (lines 31-36): the day of the year
\* 2022, or 0 when it raises ValueError.
strptime(tok) ==
    LET DaysInMonth == IF tok.mm = 2 THEN 28 ELSE 31
    IN  IF tok.mm \in 1..12 /\ tok.dd \in 1..DaysInMonth
        THEN (IF tok.mm = 1 THEN 0 ELSE 31) + tok.dd
        ELSE 0

\* The mutant of the loop below: a ValueError ends the search.
RECURSIVE try_patterns_stop_on_error(_, _)
try_patterns_stop_on_error(ps, name) ==
    IF ps = <<>> THEN 0
    ELSE IF re_search(Head(ps), name) # <<>>
         THEN strptime(re_search(Head(ps), name)[1])
         ELSE try_patterns_stop_on_error(Tail(ps), name)

\* lines 26-39: the loop over the patterns from the pattern list ps on;
\* 0 stands for None.
RECURSIVE try_patterns(_, _)
try_patterns(ps, name) ==
    IF ps = <<>> THEN 0
    ELSE IF /\ re_search(Head(ps), name) # <<>>
            /\ strptime(re_search(Head(ps), name)[1]) # 0
         THEN strptime(re_search(Head(ps), name)[1])
         ELSE try_patterns(Tail(ps), name)

extract_date_from_filename(name) == try_patterns(patterns, name)

\* check_tif_metadata line 70: image_date = extract_date_from_filename(filename)
ExtractDate ==
    /\ x_pc = "call"
    /\ image_date' = extract_date_from_filename(filename)
    /\ x_pc' = "returned"
    /\ UNCHANGED <<filename, not_date>>

\* extract_date_from_filename called on one file name.
InitDate ==
    /\ PipelineIdle
    /\ ScratchIdle
    /\ LandsatIdle
    /\ QueryIdle
    /\ FilterIdle
    /\ x_pc = "call"
    /\ filename \in Filenames
    /\ image_date = 0
    /\ SyncIdle /\ AlignIdle /\ EraIdle /\ NdviIdle
SpecDate == InitDate /\ [][ExtractDate]_vars

\* C11: the function returns the date of the first of the formats
\* YYYY-MM-DD, YYYY_MM_DD, YYYYMMDD whose token in the file name (the
\* leftmost match of the format) is a valid calendar date; a token of the
\* right shape that is no valid date does not stop the search; the result
\* is None when no format yields a valid date.
C11_FirstValidFormat ==
    LET Formats == << "dash", "underscore", "digits" >>
        Token(k) == re_search(Formats[k], filename)
        Yields(k) == Token(k) # <<>> /\ strptime(Token(k)[1]) # 0
    IN  x_pc = "returned" =>
            /\ (\A k \in 1..3 : ~Yields(k)) => image_date = 0
            /\ \A k \in 1..3 :
                  Yields(k) /\ (\A j \in 1..(k - 1) : ~Yields(j)) =>
                      image_date = strptime(Token(k)[1])

\* C11, its case: the YYYY-MM-DD token has the shape but is no date and the
\* date returned comes from the YYYYMMDD token.
C11_Witness ==
    /\ x_pc = "returned"
    /\ re_search("dash", filename) # <<>>
    /\ strptime(re_search("dash", filename)[1]) = 0
    /\ re_search("underscore", filename) = <<>>
    /\ re_search("digits", filename) # <<>>
    /\ image_date # 0

\* C12: for each composite the package is requested at most 3 times; no
\* request is made after an attempt that succeeded; the pauses between the
\* attempts of an image are 2 s, then 4 s, one for each attempt but the
\* last; after 3 failed attempts the image's file does not exist and the
\* loop has moved on to the next image.
C12_RetryPolicy ==
    /\ \A i \in DOMAIN n_req : n_req[i] <= 3
    /\ n_pc \in {"mkdtemp", "fetch", "backoff"} => ~download_success
    /\ \A i \in n_ended :
          n_req[i] > 0 => n_waits[i] = SubSeq(<<2, 4>>, 1, n_req[i] - 1)
    /\ (n_pc = "head" /\ n_i > 1 /\ n_req[n_i - 1] = 3 /\ ~download_success) =>
          /\ composites[n_i - 1].day \notin n_files
          /\ n_i - 1 \in n_ended
          /\ n_abort = "none"

\* C12, its case: an image has just had three failed attempts, with pauses
\* of 2 s and 4 s, and another image is still to come.
C12_Witness ==
    /\ n_pc = "head" /\ n_i > 1 /\ n_i <= Len(composites)
    /\ n_req[n_i - 1] = 3 /\ ~download_success
    /\ n_waits[n_i - 1] = <<2, 4>>

(***************************************************************************)
(* filter_lst_range.py: filter_image_by_range                              *)
(* Pixel values are numbers of a scale on which every integer is a float64 *)
(* and the multiples of 4 are the float32 values.                          *)
(***************************************************************************)
\* Most bands of a file.
MaxBands == 2

\* np.nan
NaN == -1

\* main, line 75: lower_bound=260, upper_bound=340, both float32 values.
lower_bound == 8
upper_bound == 16

\* The files of the model: two pixels a band.  An LST raster is float64
\* (ls2_prd_retrieval.py line 25: ST_B10 * 0.00341802 + 149.0); a float32
\* file holds float32 values only.
FilterFiles ==
    LET Pixels(dtype) == IF dtype = "float32" THEN {4, 8, 16, NaN}
                         ELSE {4, 8, 9, 16, 17, 20, NaN}
    IN  UNION { [dtype : {dtype}, nodata : {"none", "nan"},
                 bands : UNION { [1..n -> [1..2 -> Pixels(dtype)]] : n \in 1..MaxBands }]
                : dtype \in {"float32", "float64"} }

\* astype('float32'), line 34, on one value: the nearest float32, the even
\* one of two nearest.
astype_float32(v) ==
    IF v = NaN \/ v % 4 = 0 THEN v
    ELSE IF v % 4 = 1 THEN v - 1
    ELSE IF v % 4 = 3 THEN v + 1
    ELSE IF ((v - 2) \div 4) % 2 = 0 THEN v - 2 ELSE v + 2

\* The mutant of the test below: a NaN counts as outside the range.
mask_counts_nan(v) == v = NaN \/ v < lower_bound \/ v > upper_bound

\* line 37 on one value of band_data; a comparison with NaN is False.
mask(v) == v # NaN /\ (v < lower_bound \/ v > upper_bound)

\* lines 34-41: band_data after band_data[mask] = np.nan.
filtered_band(band) ==
    [p \in DOMAIN band |->
        IF mask(astype_float32(band[p])) THEN NaN ELSE astype_float32(band[p])]

\* The mutant of the count below: every pixel counts.
pixels_to_change_all(band) == Cardinality(DOMAIN band)

\* line 38: np.sum(mask)
pixels_to_change(band) ==
    Cardinality({ p \in DOMAIN band : mask(astype_float32(band[p])) })

\* line 22: the file is opened in update mode (ok = FALSE: rasterio.open
\* raises and the handler of line 53 prints).
FilterCall ==
    /\ f_pc = "idle"
    /\ f_calls < MaxCalls
    /\ f_calls' = f_calls + 1
    /\ f_prev' = f_result
    /\ f_before' = f_file
    /\ f_wrote' = {}
    /\ total_changed' = 0
    /\ \E ok \in BOOLEAN :
          IF ok
          THEN f_pc' = "band" /\ band_idx' = 1 /\ f_result' = "none"
          ELSE f_pc' = "idle" /\ band_idx' = 0 /\ f_result' = "error"
    /\ UNCHANGED <<f_file, not_filter>>

\* lines 33-43: one band is read, masked and, if a pixel is to change,
\* written back into the file (ok = FALSE: src.write raises and the handler
\* of line 55 prints).
FilterBand ==
    /\ f_pc = "band"
    /\ band_idx <= Len(f_file.bands)
    /\ IF pixels_to_change(f_file.bands[band_idx]) > 0
       THEN \E ok \in BOOLEAN :
              IF ok
              THEN /\ f_file' = [f_file EXCEPT !.bands[band_idx] = filtered_band(@)]
                   /\ f_wrote' = f_wrote \cup {band_idx}
                   /\ total_changed' =
                          total_changed + pixels_to_change(f_file.bands[band_idx])
                   /\ band_idx' = band_idx + 1
                   /\ UNCHANGED <<f_pc, f_result>>
              ELSE /\ f_pc' = "idle"
                   /\ f_result' = "error"
                   /\ UNCHANGED <<f_file, f_wrote, total_changed, band_idx>>
       ELSE /\ band_idx' = band_idx + 1
            /\ UNCHANGED <<f_file, f_wrote, total_changed, f_pc, f_result>>
    /\ UNCHANGED <<f_calls, f_before, f_prev, not_filter>>

\* lines 45-51: after the last band the no-data value is set to NaN if a
\* pixel was replaced and it is not NaN yet.
FilterClose ==
    /\ f_pc = "band"
    /\ band_idx > Len(f_file.bands)
    /\ IF total_changed > 0
       THEN /\ f_result' = "filtered"
            /\ IF f_file.nodata # "nan"
               THEN /\ f_file' = [f_file EXCEPT !.nodata = "nan"]
                    /\ f_wrote' = f_wrote \cup {0}
               ELSE UNCHANGED <<f_file, f_wrote>>
       ELSE /\ f_result' = "skipped"
            /\ UNCHANGED <<f_file, f_wrote>>
    /\ f_pc' = "idle"
    /\ UNCHANGED <<band_idx, total_changed, f_calls, f_before, f_prev, not_filter>>

FilterNext == FilterCall \/ FilterBand \/ FilterClose

\* filter_image_by_range called up to MaxCalls times on one file.
InitFilter ==
    /\ PipelineIdle
    /\ ScratchIdle
    /\ LandsatIdle
    /\ QueryIdle
    /\ f_pc = "idle"
    /\ f_file \in FilterFiles
    /\ band_idx = 0
    /\ total_changed = 0
    /\ f_calls = 0
    /\ f_before = f_file
    /\ f_wrote = {}
    /\ f_result = "none"
    /\ f_prev = "none"
    /\ SyncIdle /\ AlignIdle /\ EraIdle /\ NdviIdle /\ DateIdle
SpecFilter == InitFilter /\ [][FilterNext]_vars


(***************************************************************************)
(* Properties of filter_image_by_range (SpecFilter)                        *)
(***************************************************************************)
\* The last call has returned without an exception.
FilterReturned == f_pc = "idle" /\ f_result \in {"filtered", "skipped"}

\* C13: after the function has returned, in every band a pixel is NaN if
\* its previous value was NaN, strictly below lower or strictly above upper,
\* and a pixel keeps its value if the previous value v has
\* lower <= v <= upper, v = lower and v = upper included.
C13_InclusiveRangePerBand ==
    FilterReturned =>
        \A b \in DOMAIN f_file.bands : \A p \in DOMAIN f_file.bands[b] :
            LET v == f_before.bands[b][p]
                w == f_file.bands[b][p]
            IN  /\ (v = NaN \/ v < lower_bound \/ v > upper_bound) => w = NaN
                /\ (v # NaN /\ lower_bound <= v /\ v <= upper_bound) => w = v

\* C14: after the function has returned, the no-data value is NaN if a
\* pixel of any band was replaced; if no pixel of any band was out of range,
\* no band and no metadata was written and the file is as it was.
C14_NodataFollowsChanges ==
    FilterReturned =>
        /\ (\E b \in DOMAIN f_file.bands : \E p \in DOMAIN f_file.bands[b] :
               f_before.bands[b][p] # NaN /\ f_file.bands[b][p] = NaN)
           => f_file.nodata = "nan"
        /\ (\A b \in DOMAIN f_file.bands : \A p \in DOMAIN f_file.bands[b] :
               \/ f_before.bands[b][p] = NaN
               \/ /\ lower_bound <= f_before.bands[b][p]
                  /\ f_before.bands[b][p] <= upper_bound)
           => f_wrote = {} /\ f_file = f_before

\* C14, its case: a call replaced pixels of a file whose no-data value was
\* not NaN and has set it.
C14_Witness ==
    /\ FilterReturned
    /\ f_result = "filtered"
    /\ f_before.nodata = "none"
    /\ 0 \in f_wrote

\* C15: a second application with the same bounds leaves the file as the
\* first one left it, counts no changed pixel and writes nothing.
C15_FilterIdempotent ==
    (FilterReturned /\ f_calls >= 2 /\ f_prev \in {"filtered", "skipped"}) =>
        /\ f_file = f_before
        /\ total_changed = 0
        /\ f_wrote = {}

\* C15, its case: the first application replaced pixels, the second has
\* returned.
C15_Witness ==
    /\ FilterReturned
    /\ f_calls = 2
    /\ f_prev = "filtered"
    /\ \E b \in DOMAIN f_file.bands : \E p \in DOMAIN f_file.bands[b] :
          f_file.bands[b][p] = NaN


(***************************************************************************)
(* era5_retriever.py: get_era5_for_date, the image of a date               *)
(* An image of the daily collection is stamped with 00:00 of its day, as   *)
(* is the target date that strptime made.                                  *)
(***************************************************************************)
\* Last day of the collection's calendar.
MaxDay == 5

\* filterDate(start, end), line 217: the images with start <= time < end.
filterDate(collection, start, end) ==
    { t \in collection : start <= t /\ t < end }

\* lines 213-225: the window of one day before to one day after the target,
\* and the first image of the filtered collection, which is in time order;
\* 0 when size() is 0.
select_best_img(collection, date) ==
    LET era5_collection == filterDate(collection, date - 1, date + 1)
    IN  IF era5_collection = {} THEN 0 ELSE SetMin(era5_collection)

\* get_era5_for_date, lines 211-225.
EraSelect ==
    /\ q_pc = "query"
    /\ best_img' = select_best_img(daily_aggr, q_date)
    /\ q_pc' = "selected"
    /\ UNCHANGED <<daily_aggr, q_date, not_query>>

\* get_era5_for_date queried for one date against one state of the
\* provider's collection.
InitQuery ==
    /\ PipelineIdle
    /\ ScratchIdle
    /\ LandsatIdle
    /\ q_pc = "query"
    /\ daily_aggr \in SUBSET (1..MaxDay)
    /\ q_date \in 2..(MaxDay - 1)
    /\ best_img = 0
    /\ SyncIdle /\ AlignIdle /\ EraIdle /\ NdviIdle /\ DateIdle /\ FilterIdle
SpecQuery == InitQuery /\ [][EraSelect]_vars

\* C16: for a target date d for which the daily collection holds an image
\* dated d, the image selected is the image dated d, not the image of a
\* neighbouring day.
C16_ExactDayImage ==
    (q_pc = "selected" /\ q_date \in daily_aggr) => best_img = q_date


\* ---------------------------------------------------------------------------
\* ndvi_retrieval.py: calculate_8day_composites and main_ndvi
\* ---------------------------------------------------------------------------

\* The periods main_ndvi is called for, in days, and the days on which the
\* source collection can hold an image.
NdviPeriods == {[start_date |-> 8, end_date |-> 16], [start_date |-> 8, end_date |-> 28]}
ObservationDays == {4, 11, 12, 27, 28}

\* An empty period yields an image with NDVI all the same.
composite_for_millis_never_empty(image_collection, millis) == Composite(millis)

\* The window of a centre takes its last day in as well.
period_collection_closed(image_collection, millis) ==
    {d \in image_collection : millis - 4 <= d /\ d <= millis + 4}

\* lines 111-114: the images of the window centred on millis,
\* filterDate(centre - days_step / 2, centre + days_step / 2).
period_collection(image_collection, millis) ==
    LET days_step == 8
        composite_start == millis - (days_step \div 2)
        composite_end == millis + (days_step \div 2)
    IN  filterDate(image_collection, composite_start, composite_end)

\* lines 109-125: the composite of the 8-day window centred on millis, or the
\* placeholder stamped with exclude_date when the window holds no image.
composite_for_millis(image_collection, millis) ==
    IF Cardinality(period_collection(image_collection, millis)) > 0
    THEN Composite(millis)
    ELSE Placeholder

\* line 105: ee.List.sequence(start.millis(), end.millis(), millis_step).
list_of_dates(start_date, end_date) ==
    LET days_step == 8
        steps == IF end_date < start_date
                 THEN 0
                 ELSE (end_date - start_date) \div days_step + 1
    IN  [k \in 1..steps |-> start_date + days_step * (k - 1)]

\* lines 101-129: one image per step of the sequence.
calculate_8day_composites(image_collection, start_date, end_date) ==
    LET centres == list_of_dates(start_date, end_date)
    IN  [k \in 1..Len(centres) |-> composite_for_millis(image_collection, centres[k])]

\* main_ndvi, lines 262-276: the composites are calculated, the placeholders
\* are filtered out, and download_ndvi is called unless nothing is left.
MainNdvi ==
    /\ n_pc = "main"
    /\ LET exclude_date == Placeholder.day
           ndvi_composites ==
               calculate_8day_composites(observations, n_period.start_date,
                                         n_period.end_date)
           valid_ndvi_composites ==
               SelectSeq(ndvi_composites, LAMBDA c : c.day # exclude_date)
           valid_composites_count == Len(valid_ndvi_composites)
       IN  /\ composites' = valid_ndvi_composites
           /\ n_q' = [i \in 1..valid_composites_count |-> 0]
           /\ n_req' = [i \in 1..valid_composites_count |-> 0]
           /\ n_waits' = [i \in 1..valid_composites_count |-> <<>>]
           /\ n_pc' = IF valid_composites_count = 0 THEN "done" ELSE "size"
    /\ UNCHANGED <<n_period, observations, n_i, n_files, attempt, download_success,
                   n_temp, n_ended, n_abort>>
    /\ UNCHANGED not_ndvi

NdviMainNext == MainNdvi \/ NdviNext

\* main_ndvi called once, on an output folder without NDVI files.
InitNdviMain ==
    /\ PipelineIdle
    /\ ScratchIdle
    /\ LandsatIdle
    /\ n_pc = "main"
    /\ n_period \in NdviPeriods
    /\ observations \in SUBSET ObservationDays
    /\ composites = <<>>
    /\ n_i = 0
    /\ n_files = {}
    /\ attempt = 0
    /\ download_success = FALSE
    /\ n_temp = 0
    /\ n_q = <<>>
    /\ n_req = <<>>
    /\ n_waits = <<>>
    /\ n_ended = {}
    /\ n_abort = "none"
    /\ SyncIdle /\ AlignIdle /\ EraIdle /\ DateIdle /\ FilterIdle /\ QueryIdle

SpecNdviMain == InitNdviMain /\ [][NdviMainNext]_vars

\* C17: every step of the 8-day grid whose window holds no source image is a
\* placeholder of calculate_8day_composites; no placeholder is handed to
\* download_ndvi or asked for a download URL; every file written is the
\* composite of a grid step whose window held at least one source image.
C17_PlaceholdersNeverDownloaded ==
    LET grid == calculate_8day_composites(observations, n_period.start_date,
                                          n_period.end_date)
        center(k) == n_period.start_date + 8 * (k - 1)
        window(c) == {d \in observations : c - 4 <= d /\ d < c + 4}
        centers == {center(k) : k \in 1..Len(grid)}
    IN  /\ \A k \in 1..Len(grid) :
               window(center(k)) = {} =>
                   /\ grid[k].day = 0
                   /\ ~grid[k].ndvi
        /\ \A i \in 1..Len(composites) :
               /\ composites[i] # Placeholder
               /\ n_req[i] > 0 => window(composites[i].day) # {}
        /\ \A d \in n_files : d \in centers /\ window(d) # {}

\* main_ndvi has run over a grid with an empty window and a file of another
\* step has been written.
C17_Witness ==
    /\ n_pc = "done"
    /\ n_files # {}
    /\ \E c \in {8, 16, 24} :
           /\ c \notin n_files
           /\ {d \in observations : c - 4 <= d /\ d < c + 4} = {}


C19_FatalForRegion ==
    LET no_reference == lst_folder = <<>>
        no_footprint == lst_folder # <<>> /\ ~Head(lst_folder).valid
        no_dates == get_dates_from_filenames(lst_folder) = <<>>
    IN  (e_pc \notin {"off", "setup"} /\ (no_reference \/ no_footprint \/ no_dates))
        => /\ e_pc \in {"done", "crashed"}
           /\ abort_in = "none"
           /\ e_idx = 0
           /\ \A d \in EraDays : nq[d] = 0 /\ nreq[d] = 0
           /\ out = out_start
           /\ ~temp_dl


\* ---------------------------------------------------------------------------
\* ls2_prd_retrieval.py: download_images
\* ---------------------------------------------------------------------------

\* The collections handed to download_images: up to two images, each with
\* its system:index and with or without an LST band.
LandsatCollections ==
    LET Images == [id : {1, 2}, lst : BOOLEAN]
    IN  { <<>> } \cup { <<a>> : a \in Images }
          \cup { <<a, b>> : a \in {x \in Images : x.id = 1},
                            b \in {x \in Images : x.id = 2} }

\* An exception leaves download_images.
LsAbort(where) ==
    /\ l_pc' = "aborted"
    /\ l_abort' = where

\* The for loop (line 85) moves on to the next image.
LsNextImage ==
    /\ l_i' = l_i + 1
    /\ l_pc' = "head"

\* lines 77-83: the size of the collection is fetched and out_folder made.
LsSize ==
    /\ l_pc = "size"
    /\ \E ok \in BOOLEAN :
          IF ok
          THEN l_i' = 1 /\ l_pc' = "head" /\ UNCHANGED l_abort
          ELSE LsAbort("size") /\ UNCHANGED l_i
    /\ UNCHANGED <<l_collection, l_files, l_temp, not_ls>>

\* line 85: the loop is exhausted and the function returns.
LsLoopEnd ==
    /\ l_pc = "head"
    /\ l_i > Len(l_collection)
    /\ l_pc' = "done"
    /\ UNCHANGED <<l_collection, l_i, l_files, l_temp, l_abort, not_ls>>

\* lines 86-104: the band check, the skip of an existing file and the
\* download URL, all outside any try.
LsHead ==
    /\ l_pc = "head"
    /\ l_i <= Len(l_collection)
    /\ \E ok \in BOOLEAN :
          IF ~ok
          THEN LsAbort("head") /\ UNCHANGED l_i
          ELSE IF ~l_collection[l_i].lst \/ l_collection[l_i].id \in l_files
          THEN LsNextImage /\ UNCHANGED l_abort
          ELSE l_pc' = "mkdtemp" /\ UNCHANGED <<l_i, l_abort>>
    /\ UNCHANGED <<l_collection, l_files, l_temp, not_ls>>

\* lines 107-108: temp_dir = tempfile.mkdtemp().
LsMkdtemp ==
    /\ l_pc = "mkdtemp"
    /\ \E ok \in BOOLEAN :
          IF ok
          THEN l_temp' = l_temp + 1 /\ l_pc' = "request" /\ UNCHANGED l_abort
          ELSE LsAbort("mkdtemp") /\ UNCHANGED l_temp
    /\ UNCHANGED <<l_collection, l_i, l_files, not_ls>>

\* lines 110-116: the request; a RequestException removes the scratch folder
\* and continues with the next image.
LsRequest ==
    /\ l_pc = "request"
    /\ \E r \in {"RequestException", "ok"} :
          IF r = "ok"
          THEN l_pc' = "save" /\ UNCHANGED <<l_i, l_temp>>
          ELSE l_temp' = l_temp - 1 /\ LsNextImage
    /\ UNCHANGED <<l_collection, l_files, l_abort, not_ls>>

\* lines 118-120: the ZIP is written into the scratch folder, outside any
\* try (ok = FALSE: open or write raises OSError, which leaves the function).
LsSaveZip ==
    /\ l_pc = "save"
    /\ \E ok \in BOOLEAN :
          IF ok
          THEN l_pc' = "unpack" /\ UNCHANGED l_abort
          ELSE LsAbort("save")
    /\ UNCHANGED <<l_collection, l_i, l_files, l_temp, not_ls>>

\* lines 123-139: the package is unpacked and its first .tif moved into
\* out_folder; every exception is caught, finally removes the scratch folder.
LsUnpack ==
    /\ l_pc = "unpack"
    /\ \E r \in {"BadZipFile", "no_tif", "Exception", "moved"} :
          l_files' = (IF r = "moved"
                      THEN l_files \cup {l_collection[l_i].id}
                      ELSE l_files)
    /\ l_temp' = l_temp - 1
    /\ LsNextImage
    /\ UNCHANGED <<l_collection, l_abort, not_ls>>

LandsatNext ==
    \/ LsSize \/ LsLoopEnd \/ LsHead \/ LsMkdtemp \/ LsRequest \/ LsSaveZip
    \/ LsUnpack

\* download_images called once on one collection.
InitLandsat ==
    /\ PipelineIdle
    /\ ScratchIdle
    /\ l_pc = "size"
    /\ l_collection \in LandsatCollections
    /\ l_i = 0
    /\ l_files \in SUBSET {1, 2}
    /\ l_temp = 0
    /\ l_abort = "none"
    /\ SyncIdle /\ AlignIdle /\ EraIdle /\ NdviIdle /\ DateIdle /\ FilterIdle
    /\ QueryIdle

SpecLandsat == InitLandsat /\ [][LandsatNext]_vars

\* C20: once the fetch for a date or an image has ended, whether by success,
\* by a return, by a caught error or by an exception that leaves the
\* function, none of the scratch folders made for it exists (for the ERA5 and
\* GLDAS retrievers: in a run that no killed run came before).
C20_ScratchRemoved ==
    /\ l_pc \in {"head", "done", "aborted"} => l_temp = 0
    /\ n_pc \in {"head", "backoff", "done", "aborted"} => n_temp = 0
    /\ (e_run = 1 /\ e_pc \in {"sleep", "date", "done", "aborted"}) => ~temp_dl


\* ---------------------------------------------------------------------------
\* Two fetches running at the same time into one output folder
\* (era5_retriever.py and gldas21_retriever.py: export_ee_image;
\* ndvi_retrieval.py: one attempt of download_ndvi)
\* ---------------------------------------------------------------------------

Tasks == {1, 2}

\* era5 line 73, gldas line 69: <output folder>/temp_dl (tmp_dl), the same
\* name for every fetch into the folder (name 0); ndvi line 185:
\* tempfile.mkdtemp(), a new name for every call (name t).
temp_dir(t) == IF retriever = "ndvi" THEN t ELSE 0

\* The step of task t has raised: the handler logs, finally runs next.
ScRaise(t) == s_pc' = [s_pc EXCEPT ![t] = "cleanup"]

\* era5 line 74, gldas line 70: os.makedirs(temp_dir, exist_ok=True);
\* ndvi line 185: mkdtemp. The request that follows is part of the step.
ScMakedirs(t) ==
    /\ s_pc[t] = "start"
    /\ scratch' = [scratch EXCEPT ![temp_dir(t)].exists = TRUE]
    /\ s_pc' = [s_pc EXCEPT ![t] = "save"]
    /\ UNCHANGED <<retriever, s_pkg, s_got, not_sc>>

\* era5 lines 93-96, gldas lines 78-83, ndvi lines 195-196: the package is
\* written to the ZIP file of the directory (open raises if the directory is
\* gone).
ScSaveZip(t) ==
    /\ s_pc[t] = "save"
    /\ IF scratch[temp_dir(t)].exists
       THEN /\ scratch' = [scratch EXCEPT ![temp_dir(t)].zip = t]
            /\ s_pc' = [s_pc EXCEPT ![t] = "unzip"]
       ELSE ScRaise(t) /\ UNCHANGED scratch
    /\ UNCHANGED <<retriever, s_pkg, s_got, not_sc>>

\* era5 lines 98-107, gldas lines 84-93, ndvi lines 200-204: the ZIP file is
\* opened, its .tif names listed and extracted into the directory.
ScUnzip(t) ==
    /\ s_pc[t] = "unzip"
    /\ LET d == scratch[temp_dir(t)] IN
       IF d.exists /\ d.zip # 0
       THEN /\ scratch' = [scratch EXCEPT ![temp_dir(t)].tifs = @ \cup {d.zip}]
            /\ s_pkg' = [s_pkg EXCEPT ![t] = d.zip]
            /\ s_pc' = [s_pc EXCEPT ![t] = "read"]
       ELSE ScRaise(t) /\ UNCHANGED <<scratch, s_pkg>>
    /\ UNCHANGED <<retriever, s_got, not_sc>>

\* era5 lines 121-134, gldas lines 105-117: the extracted files are read and
\* written to out_path; ndvi line 206: the extracted file is moved.
ScRead(t) ==
    /\ s_pc[t] = "read"
    /\ LET d == scratch[temp_dir(t)] IN
       IF d.exists /\ s_pkg[t] \in d.tifs
       THEN s_got' = [s_got EXCEPT ![t] = s_pkg[t]]
       ELSE UNCHANGED s_got
    /\ s_pc' = [s_pc EXCEPT ![t] = "cleanup"]
    /\ UNCHANGED <<retriever, scratch, s_pkg, not_sc>>

\* era5 lines 139-141, gldas lines 120-121, ndvi lines 221-224: finally
\* removes the directory with all it holds.
ScRmtree(t) ==
    /\ s_pc[t] = "cleanup"
    /\ scratch' = [scratch EXCEPT ![temp_dir(t)] =
                      [exists |-> FALSE, zip |-> 0, tifs |-> {}]]
    /\ s_pc' = [s_pc EXCEPT ![t] = "done"]
    /\ UNCHANGED <<retriever, s_pkg, s_got, not_sc>>

ScratchNext ==
    \E t \in Tasks :
        \/ ScMakedirs(t) \/ ScSaveZip(t) \/ ScUnzip(t) \/ ScRead(t)
        \/ ScRmtree(t)

\* Two fetches of one retriever start, for different dates of one folder.
InitScratch ==
    /\ PipelineIdle
    /\ retriever \in {"era5", "gldas", "ndvi"}
    /\ s_pc = [t \in Tasks |-> "start"]
    /\ scratch = [n \in {0} \cup Tasks |->
                     [exists |-> FALSE, zip |-> 0, tifs |-> {}]]
    /\ s_pkg = [t \in Tasks |-> 0]
    /\ s_got = [t \in Tasks |-> 0]
    /\ SyncIdle /\ AlignIdle /\ EraIdle /\ NdviIdle /\ DateIdle /\ FilterIdle
    /\ QueryIdle /\ LandsatIdle

SpecScratch == InitScratch /\ [][ScratchNext]_vars

\* C21: two fetches running at the same time never use one scratch
\* directory; between the saving of its package and its own cleanup, the
\* directory of a fetch exists and holds that fetch's package and extracted
\* files, and a fetch reads no pixels but its own.
C21_ScratchPerTask ==
    /\ \A t, u \in Tasks :
          (t # u /\ {s_pc[t], s_pc[u]} \subseteq {"save", "unzip", "read", "cleanup"})
              => temp_dir(t) # temp_dir(u)
    /\ \A t \in Tasks :
          /\ s_pc[t] = "unzip" =>
                 scratch[temp_dir(t)].exists /\ scratch[temp_dir(t)].zip = t
          /\ s_pc[t] = "read" =>
                 scratch[temp_dir(t)].exists /\ t \in scratch[temp_dir(t)].tifs
          /\ s_got[t] \in {0, t}


\* C22: between two consecutive download requests made for different images
\* of one run the retriever pauses: an image whose package was requested and
\* that is followed by another requested image has a pause after its last
\* request, whether that request succeeded or failed.
C22_PauseBetweenRequests ==
    \A j, i \in DOMAIN n_req :
        (j < i /\ n_req[j] > 0 /\ n_req[i] > 0) => Len(n_waits[j]) >= n_req[j]


\* C23: a first run that started on an empty output folder and has gone
\* through its dates leaves no file for a date whose query result was empty,
\* a file only for a date whose data the provider delivered, and, where the
\* delivered data were written and aligned without a local failure, exactly
\* one complete raster for the date; the run is not ended by an exception.
C23_EndToEnd ==
    (e_run = 1 /\ e_pc \in {"final", "done", "aborted"}) =>
        /\ e_pc # "aborted"
        /\ \A d \in EraDays :
              /\ e_res[d] = "empty" => ~out[d].exists /\ ~tmpf[d].exists
              /\ out[d].exists =>
                     /\ e_res[d] \in {"data", "fault"}
                     /\ \E k \in 1..Len(target_dates) : target_dates[k] = d
              /\ (e_res[d] = "data" /\ aligned[d] \in {"noop", "resampled"}) =>
                     Complete(out[d]) /\ ~tmpf[d].exists

\* A run over two dates has ended with an empty result for one of them and
\* the raster of the other in the folder.
C23_Witness ==
    /\ e_run = 1
    /\ e_pc = "done"
    /\ \E d, x \in EraDays :
          /\ e_res[d] = "empty" /\ ~out[d].exists
          /\ e_res[x] = "data" /\ Complete(out[x]) /\ ~tmpf[x].exists
    /\ Cardinality({d \in EraDays : out[d].exists}) = 1


\* C24: a call of filter_image_by_range that fails after it has written at
\* least one band does not leave the file half done: no band is left with
\* pixels outside the range, and the no-data value is NaN since pixels were
\* replaced by NaN.
C24_NoMixedState ==
    (f_pc = "idle" /\ f_result = "error" /\ f_wrote # {}) =>
        /\ \A b \in 1..Len(f_file.bands) : pixels_to_change(f_file.bands[b]) = 0
        /\ f_file.nodata = "nan"


\* C25: the dates main works on are those of the file names that carry a
\* date, each once and strictly ascending, whatever files without a date the
\* listing holds and wherever it holds them; the loop takes them in that
\* order, one after the other, and each date is queried and requested at
\* most once in a run.
C25_DatesAscendingOnce ==
    (e_idx >= 1 /\ e_pc \in {"date", "export", "download", "write_open", "write",
                             "cleanup", "sleep", "final", "done"}) =>
        /\ \A i, j \in 1..Len(target_dates) :
               i < j => target_dates[i] < target_dates[j]
        /\ {target_dates[i] : i \in 1..Len(target_dates)}
               = {lst_folder[i].day :
                      i \in {j \in 1..Len(lst_folder) : lst_folder[j].token = "date"}}
        /\ ended = {target_dates[k] : k \in 1..(e_idx - 1)}
        /\ \A d \in EraDays : nq[d] <= 3 /\ nreq[d] <= 1

\* The listing holds a file without a date between dated files, one date
\* twice and the later date first; the first date has been processed.
C25_Witness ==
    /\ e_pc = "date"
    /\ Len(lst_folder) = 4
    /\ e_idx = 2
    /\ ended = {1}


\* ---------------------------------------------------------------------------
\* run_tay_nguyen_pipeline.py
\* ---------------------------------------------------------------------------

\* The return codes a command of the pipeline may end with.
ReturnCodes == {0, 1, 2}

\* The mutant of run_command: a failed command is reported as a success.
run_command_ignores_failure(returncode) == TRUE

\* run_command, lines 26-41: subprocess.run(..., check=True) raises
\* CalledProcessError for a return code other than 0, and False is returned.
run_command(returncode) == returncode = 0

\* sys.exit(1), or an exception that nothing catches: status 1.
PlExit(status) ==
    /\ p_pc' = "exited"
    /\ p_exit' = status

\* lines 56-67: the log file is made and the first entry written.
PlStart ==
    /\ p_pc = "start"
    /\ \E ok \in BOOLEAN :
          IF ok
          THEN /\ p_log' = <<"started">>
               /\ p_pc' = "mode1"
               /\ UNCHANGED p_exit
          ELSE PlExit(1) /\ UNCHANGED p_log
    /\ UNCHANGED <<csv_file, csv_checked, p_steps, p_printed, not_pl>>

\* lines 75-91: the mode of filter_tay_nguyen_grids.py is read and printed;
\* any error is caught.
PlFilterMode ==
    /\ p_pc = "mode1"
    /\ \E m \in {"unreadable", "test sampled", "test all", "full sampled",
                 "full all"} :
          p_printed' = Append(p_printed, m)
    /\ p_pc' = "mode2"
    /\ UNCHANGED <<csv_file, csv_checked, p_steps, p_log, p_exit, not_pl>>

\* lines 94-102: the mode of main.py is read and printed; any error is
\* caught.
PlCrawlMode ==
    /\ p_pc = "mode2"
    /\ \E m \in {"unreadable", "test", "full"} :
          p_printed' = Append(p_printed, m)
    /\ p_pc' = "filter"
    /\ UNCHANGED <<csv_file, csv_checked, p_steps, p_log, p_exit, not_pl>>

\* lines 109-114: step 1; the command may make or remove the CSV file.
PlFilter ==
    /\ p_pc = "filter"
    /\ \E returncode \in ReturnCodes, made \in BOOLEAN :
          /\ p_steps' = Append(p_steps, [cmd |-> "filter_tay_nguyen_grids.py",
                                         rc |-> returncode])
          /\ csv_file' = made
          /\ IF run_command(returncode)
             THEN p_pc' = "csv" /\ UNCHANGED <<p_log, p_exit>>
             ELSE /\ p_log' = Append(p_log, "failed at grid filtering")
                  /\ PlExit(1)
    /\ UNCHANGED <<csv_checked, p_printed, not_pl>>

\* lines 117-120: check_file_exists; without the file the process exits.
PlCheckCsv ==
    /\ p_pc = "csv"
    /\ IF csv_file
       THEN /\ csv_checked' = "found"
            /\ p_pc' = "summary"
            /\ UNCHANGED p_exit
       ELSE /\ csv_checked' = "missing"
            /\ PlExit(1)
    /\ UNCHANGED <<csv_file, p_steps, p_printed, p_log, not_pl>>

\* lines 123-129: the summary of the CSV; any error is caught.
PlSummary ==
    /\ p_pc = "summary"
    /\ \E m \in {"summary", "could not read"} :
          p_printed' = Append(p_printed, m)
    /\ p_pc' = "crawl"
    /\ UNCHANGED <<csv_file, csv_checked, p_steps, p_log, p_exit, not_pl>>

\* lines 142-147: step 2.
PlCrawl ==
    /\ p_pc = "crawl"
    /\ \E returncode \in ReturnCodes :
          /\ p_steps' = Append(p_steps, [cmd |-> "main.py", rc |-> returncode])
          /\ IF run_command(returncode)
             THEN p_pc' = "complete" /\ UNCHANGED <<p_log, p_exit>>
             ELSE /\ p_log' = Append(p_log, "failed at data crawling")
                  /\ PlExit(1)
    /\ UNCHANGED <<csv_file, csv_checked, p_printed, not_pl>>

\* lines 149-160: the completion entry is written and main returns
\* (ok = FALSE: the log file cannot be opened, the exception ends the
\* process).
PlComplete ==
    /\ p_pc = "complete"
    /\ \E ok \in BOOLEAN :
          IF ok
          THEN p_log' = Append(p_log, "completed successfully") /\ PlExit(0)
          ELSE UNCHANGED p_log /\ PlExit(1)
    /\ UNCHANGED <<csv_file, csv_checked, p_steps, p_printed, not_pl>>

PipelineNext ==
    \/ PlStart \/ PlFilterMode \/ PlCrawlMode \/ PlFilter \/ PlCheckCsv
    \/ PlSummary \/ PlCrawl \/ PlComplete

\* The script is started in a directory that may hold the CSV of an
\* earlier run.
InitPipeline ==
    /\ p_pc = "start"
    /\ csv_file \in BOOLEAN
    /\ csv_checked = "none"
    /\ p_steps = <<>>
    /\ p_printed = <<>>
    /\ p_log = <<>>
    /\ p_exit = -1
    /\ SyncIdle /\ AlignIdle /\ EraIdle /\ NdviIdle /\ DateIdle /\ FilterIdle
    /\ QueryIdle /\ LandsatIdle /\ ScratchIdle

SpecPipeline == InitPipeline /\ [][PipelineNext]_vars

\* C26: the crawling command is run only as the second command, after the
\* filtering command returned 0 and the CSV was found; when the filtering
\* fails, the CSV is missing or the crawling fails, the process has exited
\* with status 1, no further command has been run and the log has no
\* 'completed successfully' entry.
C26_StepOrder ==
    LET ran(k, cmd) == Len(p_steps) >= k /\ p_steps[k].cmd = cmd
        failed(k) == Len(p_steps) >= k /\ p_steps[k].rc # 0
        completed == \E i \in 1..Len(p_log) : p_log[i] = "completed successfully"
    IN  /\ Len(p_steps) <= 2
        /\ Len(p_steps) >= 1 => ran(1, "filter_tay_nguyen_grids.py")
        /\ Len(p_steps) = 2 =>
               /\ ran(2, "main.py")
               /\ p_steps[1].rc = 0
               /\ csv_checked = "found"
        /\ (failed(1) \/ csv_checked = "missing") =>
               p_pc = "exited" /\ p_exit = 1 /\ Len(p_steps) = 1 /\ ~completed
        /\ failed(2) => p_pc = "exited" /\ p_exit = 1 /\ ~completed
        /\ completed => p_exit = 0

\* The filtering succeeded and left no CSV: the process has exited with
\* status 1 before the crawling.
C26_Witness ==
    /\ p_pc = "exited"
    /\ p_exit = 1
    /\ Len(p_steps) = 1
    /\ p_steps[1].rc = 0
    /\ csv_checked = "missing"


\* C27: verify_image returns True or False for every file of the output
\* folder, also for one that cannot be opened, and no run is ended by an
\* exception at the skip of an existing file or in the final verification.
C27_VerifyNeverRaises ==
    /\ \A f \in OutputTifs : verify_image(f) \in {"True", "False"}
    /\ abort_in \notin {"date", "final"}


\* C28: once resample_to_match_reference has returned, on the fast path,
\* after resampling or after reporting an error, no file
\* <source_path>.resampled.tif exists.
C28_NoTemporaryLeft ==
    (al_pc = "idle" /\ al_result \in {"noop", "resampled", "error"}) =>
        ~al_tmp.exists


\* C29: whenever export_ee_image writes the combined raster, the raster has
\* as many bands as were requested and no two of its bands are read from the
\* same file of the package, whether the files were matched by name or taken
\* in the package's order.
C29_OneFilePerBand ==
    e_pc \in {"write_open", "write"} =>
        /\ Len(band_arrays) = Len(ERA5_BANDS)
        /\ e_pc = "write" => out[cur].count = Len(ERA5_BANDS)
        /\ \A i, j \in 1..Len(band_arrays) :
               i # j => band_arrays[i].data[1] # band_arrays[j].data[1]


\* C30: the centres are start, start + 8 days, ... up to end; the window of
\* a centre c holds the images dated in [c - 4 days, c + 4 days); every
\* image dated in [start - 4 days, last centre + 4 days) is in the window of
\* exactly one centre, and an image outside that span is in none.
C30_WindowsTile ==
    LET centres == list_of_dates(n_period.start_date, n_period.end_date)
        C == {centres[k] : k \in 1..Len(centres)}
        last == centres[Len(centres)]
        holding(d) == {c \in C : d \in period_collection(observations, c)}
    IN  n_pc # "off" =>
            /\ C = {c \in n_period.start_date..n_period.end_date :
                        (c - n_period.start_date) % 8 = 0}
            /\ \A c \in C :
                   period_collection(observations, c)
                       = {d \in observations : c - 4 <= d /\ d < c + 4}
            /\ \A d \in observations :
                   Cardinality(holding(d))
                       = (IF n_period.start_date - 4 <= d /\ d < last + 4
                          THEN 1 ELSE 0)

\* main_ndvi has built the composites from a collection with an image on
\* the day where two windows meet.
C30_Witness ==
    /\ n_pc = "size"
    /\ 12 \in observations
    /\ \E i \in 1..Len(composites) : composites[i].day = 16
====
